---- MODULE Spec2Model ----
(***************************************************************************)
(* Model of the HubSpot bulk property tool (server.js + public/app.js).   *)
(*                                                                         *)
(* Text is modelled as sequences of one-character strings, JSON values as  *)
(* tagged records, and the regular expressions of the reference extractor  *)
(* as matchers over those character sequences.                             *)
(***************************************************************************)
EXTENDS Integers, Sequences, FiniteSets, TLC

(***************************************************************************)
(* Bounds of the explored inputs.                                          *)
(***************************************************************************)
MaxEntries == 2   \* entries of a generated object built from the core pool
MaxDepth == 1     \* nesting levels wrapped around a generated object
MaxNest == 2      \* levels of conditional fields below a form field
MaxItems == 2     \* items the CRM serves in all during one usage scan
MaxPages == 3     \* pages the CRM serves for one paginated source
MaxLabel == 3     \* characters of a short label
MaxPieces == 3    \* pieces of a generated option string
MaxRows == 3      \* rows of a bulk-creation batch
MaxProps == 3     \* properties of the loaded property list

Null == "null_value"

(***************************************************************************)
(* Characters and character classes.                                      *)
(***************************************************************************)
Lower == {"a","b","c","d","e","f","g","h","i","j","k","l","m",
          "n","o","p","q","r","s","t","u","v","w","x","y","z"}
Upper == {"A","B","C","D","E","F","G","H","I","J","K","L","M",
          "N","O","P","Q","R","S","T","U","V","W","X","Y","Z"}
Digit == {"0","1","2","3","4","5","6","7","8","9"}
Quote == "\""
Backslash == "\\"

\* String.prototype.toLowerCase on one character
LowerOf(c) ==
  CASE c = "A" -> "a" [] c = "B" -> "b" [] c = "C" -> "c" [] c = "D" -> "d"
    [] c = "E" -> "e" [] c = "F" -> "f" [] c = "G" -> "g" [] c = "H" -> "h"
    [] c = "I" -> "i" [] c = "J" -> "j" [] c = "K" -> "k" [] c = "L" -> "l"
    [] c = "M" -> "m" [] c = "N" -> "n" [] c = "O" -> "o" [] c = "P" -> "p"
    [] c = "Q" -> "q" [] c = "R" -> "r" [] c = "S" -> "s" [] c = "T" -> "t"
    [] c = "U" -> "u" [] c = "V" -> "v" [] c = "W" -> "w" [] c = "X" -> "x"
    [] c = "Y" -> "y" [] c = "Z" -> "z" [] OTHER -> c

ToLower(s) == [k \in 1..Len(s) |-> LowerOf(s[k])]

RECURSIVE Concat(_)
Concat(ss) == IF ss = <<>> THEN <<>> ELSE Head(ss) \o Concat(Tail(ss))

Range(f) == {f[x] : x \in DOMAIN f}

(***************************************************************************)
(* Words of the program and of its inputs, spelled as character sequences. *)
(***************************************************************************)
W_PROP_L == <<"p","r","o","p","e","r","t","y">>
W_PROP_C == <<"P","r","o","p","e","r","t","y">>
W_PROP_U == <<"P","R","O","P","E","R","T","Y">>
W_NAME_C == <<"N","a","m","e">>
W_NAME_L == <<"n","a","m","e">>
W_NAME_U == <<"N","A","M","E">>
W_TYPE == <<"T","y","p","e">>
W_FILTER == <<"f","i","l","t","e","r">>
W_FROM == <<"f","r","o","m">>
W_SUBJECT == <<"s","u","b","j","e","c","t">>
W_LEAD == <<"l","e","a","d","_","s","t","a","t","u","s">>
W_FAV == <<"f","a","v","o","r","i","t","e","_","c","o","l","o","r">>
W_ENUM == <<"E","N","U","M","E","R","A","T","I","O","N">>
W_CONTACT == <<"c","o","n","t","a","c","t">>
W_NAME_KEY == <<"n","a","m","e">>
W_FIELDGROUPS == <<"f","i","e","l","d","G","r","o","u","p","s">>
W_FIELDS == <<"f","i","e","l","d","s">>
W_DEPFIELDS == <<"d","e","p","e","n","d","e","n","t","F","i","e","l","d","s">>
W_DEPFILTERS == <<"d","e","p","e","n","d","e","n","t","F","i","e","l","d","F","i","l","t","e","r","s">>
W_DEPFORMFIELD == <<"d","e","p","e","n","d","e","n","t","F","o","r","m","F","i","e","l","d">>
W_FORMFIELDS == <<"f","o","r","m","F","i","e","l","d","s">>
W_EMAIL == <<"e","m","a","i","l">>
W_FIRSTNAME == <<"F","i","r","s","t"," ","N","a","m","e">>
W_RESPONSE == <<"r","e","s","p","o","n","s","e">>
W_DATA == <<"d","a","t","a">>
W_ACTIONS == <<"a","c","t","i","o","n","s">>
W_STAGES == <<"s","t","a","g","e","s">>
W_BRANCH == <<"f","i","l","t","e","r","B","r","a","n","c","h">>
W_REQUIRED == <<"r","e","q","u","i","r","e","d">>
W_ID == <<"i","d">>
W_LABEL == <<"l","a","b","e","l">>
W_LISTID == <<"l","i","s","t","I","d">>
W_LIMIT == <<"l","i","m","i","t">>
W_AFTER == <<"a","f","t","e","r">>
W_INCLUDEFILTERS == <<"i","n","c","l","u","d","e","F","i","l","t","e","r","s">>
W_PAGING == <<"p","a","g","i","n","g">>
W_NEXT == <<"n","e","x","t">>
W_RESULTS == <<"r","e","s","u","l","t","s">>
W_WORKFLOWS == <<"w","o","r","k","f","l","o","w","s">>
W_LISTS == <<"l","i","s","t","s">>
W_OBJECTS == <<"o","b","j","e","c","t","s">>
W_MESSAGE == <<"m","e","s","s","a","g","e">>
W_WORKFLOW_SP == <<"W","o","r","k","f","l","o","w"," ">>
W_UNNAMED_FORM == <<"U","n","n","a","m","e","d"," ","F","o","r","m">>
W_UNNAMED_LIST == <<"U","n","n","a","m","e","d"," ","L","i","s","t">>
W_UNNAMED_PIPELINE == <<"U","n","n","a","m","e","d"," ","P","i","p","e","l","i","n","e">>
W_UNNAMED_EMAIL == <<"U","n","n","a","m","e","d"," ","E","m","a","i","l">>
W_UNNAMED_REPORT == <<"U","n","n","a","m","e","d"," ","R","e","p","o","r","t">>
W_LBL_WORKFLOWS == <<"W","o","r","k","f","l","o","w","s">>
W_LBL_FORMS == <<"F","o","r","m","s">>
W_LBL_LISTS == <<"L","i","s","t","s">>
W_LBL_PIPELINES == <<"P","i","p","e","l","i","n","e","s">>
W_LBL_EMAILS == <<"M","a","r","k","e","t","i","n","g"," ","e","m","a","i","l","s">>
W_LBL_REPORTS == <<"R","e","p","o","r","t","s">>
W_UNAUTHORIZED == <<"U","n","a","u","t","h","o","r","i","z","e","d">>
W_TIMEOUT == <<"t","i","m","e","o","u","t">>
W_STATUS401 == <<"s","t","a","t","u","s"," ","4","0","1">>
W_TOKEN_REQUIRED == <<"t","o","k","e","n"," ","i","s"," ","r","e","q","u","i","r","e","d",".">>
W_TOK == <<"p","a","t","-","1">>
W_AMOUNT == <<"a","m","o","u","n","t">>
W_WELCOME == <<"W","e","l","c","o","m","e">>
W_SALES == <<"S","a","l","e","s">>

(***************************************************************************)
(* JSON values: [t |-> tag, v |-> payload].                                *)
(*   "str"  : payload is the sequence of characters                        *)
(*   "num"  : payload is a natural number                                  *)
(*   "bool" : payload is TRUE or FALSE                                     *)
(*   "null" : payload is Null                                              *)
(*   "arr"  : payload is a sequence of JSON values                         *)
(*   "obj"  : payload is a sequence of entries [k |-> chars, v |-> value],  *)
(*            in insertion order, keys distinct                            *)
(***************************************************************************)
JStr(s) == [t |-> "str", v |-> s]
JNum(n) == [t |-> "num", v |-> n]
JBool(b) == [t |-> "bool", v |-> b]
JNull == [t |-> "null", v |-> Null]
JArr(a) == [t |-> "arr", v |-> a]
JObj(es) == [t |-> "obj", v |-> es]
Entry(k, val) == [k |-> k, v |-> val]
\* the value `undefined` (a missing property); never part of a JSON value
Undefined == [t |-> "undefined", v |-> Null]

\* property access obj[key] on a value
Get(val, key) ==
  IF val.t = "obj" /\ \E i \in 1..Len(val.v) : val.v[i].k = key
  THEN val.v[CHOOSE i \in 1..Len(val.v) : val.v[i].k = key].v
  ELSE Undefined

\* JavaScript truthiness
Truthy(val) ==
  CASE val.t = "undefined" -> FALSE
    [] val.t = "null" -> FALSE
    [] val.t = "bool" -> val.v
    [] val.t = "num" -> val.v # 0
    [] val.t = "str" -> val.v # <<>>
    [] OTHER -> TRUE

IsArray(val) == val.t = "arr"

RECURSIVE DecChars(_)
DecChars(n) ==
  LET d == <<"0","1","2","3","4","5","6","7","8","9">>[(n % 10) + 1]
  IN IF n < 10 THEN <<d>> ELSE DecChars(n \div 10) \o <<d>>

\* the escaping JSON.stringify applies inside a string literal
EscapeChar(c) ==
  CASE c = Quote -> <<Backslash, Quote>>
    [] c = Backslash -> <<Backslash, Backslash>>
    [] c = "\n" -> <<Backslash, "n">>
    [] c = "\t" -> <<Backslash, "t">>
    [] OTHER -> <<c>>

QuoteString(s) ==
  <<Quote>> \o Concat([k \in 1..Len(s) |-> EscapeChar(s[k])]) \o <<Quote>>

RECURSIVE JoinComma(_)
JoinComma(parts) ==
  IF parts = <<>> THEN <<>>
  ELSE IF Len(parts) = 1 THEN parts[1]
  ELSE parts[1] \o <<",">> \o JoinComma(Tail(parts))

RECURSIVE Stringify(_)
Stringify(val) ==
  CASE val.t = "str" -> QuoteString(val.v)
    [] val.t = "num" -> DecChars(val.v)
    [] val.t = "bool" -> IF val.v THEN <<"t","r","u","e">>
                                  ELSE <<"f","a","l","s","e">>
    [] val.t = "null" -> <<"n","u","l","l">>
    [] val.t = "arr" ->
         <<"[">> \o JoinComma([i \in 1..Len(val.v) |-> Stringify(val.v[i])])
                 \o <<"]">>
    [] val.t = "obj" ->
         <<"{">> \o JoinComma([i \in 1..Len(val.v) |->
                       QuoteString(val.v[i].k) \o <<":">>
                         \o Stringify(val.v[i].v)])
                 \o <<"}">>

(***************************************************************************)
(* Regular-expression matching over character sequences.                   *)
(***************************************************************************)
\* the character at index i, or "" past either end of the input
At(s, i) == IF i \in 1..Len(s) THEN s[i] ELSE ""

\* literal text lit occurs in s at index i
LitAt(s, i, lit) == \A k \in 1..Len(lit) : At(s, i + k - 1) = lit[k]

\* a greedy X* : the first index >= i whose character is not in class
RECURSIVE SkipClass(_, _, _)
SkipClass(s, i, class) ==
  IF At(s, i) \in class THEN SkipClass(s, i + 1, class) ELSE i

NoMatch == [ok |-> FALSE, cap |-> <<>>, end |-> 0]

\* \s
SpaceChars == {" ", "\t", "\n", "\r", "\f"}
\* [a-zA-Z] : the characters allowed before the Property suffix of a key
KeyPrefixChars == Lower \cup Upper
\* [Pp] and [Nn] : the two casings accepted for the suffix words
SuffixP == {"P", "p"}
SuffixN == {"N", "n"}
\* [a-z] : first character of a captured name
IdentStartChars == Lower
\* [a-z0-9_] : later characters of a captured name
IdentChars == Lower \cup Digit \cup {"_"}

\* ValueAt without the quote that must close the captured name
ValueAt_Unclosed(s, q) ==
  LET b == SkipClass(s, q + 1, SpaceChars)
      c == SkipClass(s, b + 1, SpaceChars)
      d == c + 1
      e == SkipClass(s, d + 1, IdentChars)
  IN IF /\ At(s, q) = Quote
        /\ At(s, b) = ":"
        /\ At(s, c) = Quote
        /\ At(s, d) \in IdentStartChars
     THEN [ok |-> TRUE, cap |-> SubSeq(s, d, e - 1), end |-> e]
     ELSE NoMatch

\* "\s*:\s*"([a-z][a-z0-9_]*)"  matched from the quote that closes the key
ValueAt(s, q) ==
  LET b == SkipClass(s, q + 1, SpaceChars)
      c == SkipClass(s, b + 1, SpaceChars)
      d == c + 1
      e == SkipClass(s, d + 1, IdentChars)
  IN IF /\ At(s, q) = Quote
        /\ At(s, b) = ":"
        /\ At(s, c) = Quote
        /\ At(s, d) \in IdentStartChars
        /\ At(s, e) = Quote
     THEN [ok |-> TRUE, cap |-> SubSeq(s, d, e - 1), end |-> e + 1]
     ELSE NoMatch

\* [Pp]roperty(?:[Nn]ame)? followed by the rest of the pattern, from index j;
\* the optional group is tried first and given up if the rest then fails
SuffixAt(s, j) ==
  LET q == j + 8
  IN IF At(s, j) \in SuffixP /\ LitAt(s, j + 1, <<"r","o","p","e","r","t","y">>)
     THEN IF /\ At(s, q) \in SuffixN
             /\ LitAt(s, q + 1, <<"a","m","e">>)
             /\ ValueAt(s, q + 4).ok
          THEN ValueAt(s, q + 4)
          ELSE ValueAt(s, q)
     ELSE NoMatch

\* the whole key pattern anchored at index i: an opening quote, then
\* [a-zA-Z]* taking as many letters as still let the rest match
KeyMatchAt(s, i) ==
  LET hi == SkipClass(s, i + 1, KeyPrefixChars)
      js == {j \in (i + 1)..hi : SuffixAt(s, j).ok}
  IN IF At(s, i) = Quote /\ js # {}
     THEN SuffixAt(s, CHOOSE j \in js : \A j2 \in js : j2 <= j)
     ELSE NoMatch

\* \{\{[a-z_]+\.([a-z0-9_]+)\}\} anchored at index i
TokenSourceChars == Lower \cup {"_"}
\* TokenFieldChars that also takes uppercase letters
TokenFieldChars_AnyCase == Lower \cup Upper \cup Digit \cup {"_"}
TokenFieldChars == Lower \cup Digit \cup {"_"}

TokenMatchAt(s, i) ==
  LET a == i + 2
      dot == SkipClass(s, a, TokenSourceChars)
      f == dot + 1
      e == SkipClass(s, f, TokenFieldChars)
  IN IF /\ LitAt(s, i, <<"{", "{">>)
        /\ i + 1 <= Len(s)
        /\ dot > a
        /\ At(s, dot) = "."
        /\ e > f
        /\ LitAt(s, e, <<"}", "}">>)
        /\ e + 1 <= Len(s)
     THEN [ok |-> TRUE, cap |-> SubSeq(s, f, e - 1), end |-> e + 2]
     ELSE NoMatch

(***************************************************************************)
(* Reference extractor.                                                    *)
(***************************************************************************)
\* while ((m = re.exec(str)) !== null) names.add(m[1]) : each exec finds the
\* leftmost match at or after lastIndex and moves lastIndex past it
\* the element of a one-element set: in TheOne({ e : x \in {v} }) the value
\* v is worked out once, whatever the number of times e reads x
TheOne(S) == CHOOSE x \in S : TRUE

Least(S) == CHOOSE h \in S : \A h2 \in S : h <= h2

RECURSIVE KeyScanLoop(_, _, _)
KeyScanLoop(s, lastIndex, names) ==
  TheOne({ IF hits = {} THEN names
           ELSE TheOne({ KeyScanLoop(s, m.end, names \cup {m.cap}) :
                         m \in {KeyMatchAt(s, Least(hits))} }) :
           hits \in { {i \in lastIndex..Len(s) : KeyMatchAt(s, i).ok} } })

extractPropNamesFromJson(str) == KeyScanLoop(str, 1, {})

RECURSIVE TokenScanLoop(_, _, _)
TokenScanLoop(s, lastIndex, names) ==
  TheOne({ IF hits = {} THEN names
           ELSE TheOne({ TokenScanLoop(s, m.end, names \cup {m.cap}) :
                         m \in {TokenMatchAt(s, Least(hits))} }) :
           hits \in { {i \in lastIndex..Len(s) : TokenMatchAt(s, i).ok} } })

\* const str = JSON.stringify(obj); const names = extractPropNamesFromJson(str)
extractPropsFromJsonWithTokens(obj) ==
  TheOne({ TheOne({ TokenScanLoop(str, 1, names) :
                    names \in {extractPropNamesFromJson(str)} }) :
           str \in {Stringify(obj)} })

extractWorkflowProps(workflow) == extractPropsFromJsonWithTokens(workflow)
extractEmailProps(email) == extractPropsFromJsonWithTokens(email)
\* extractListProps scanning for tokens as well
extractListProps_WithTokens(list) == extractPropsFromJsonWithTokens(list)
extractListProps(list) ==
  TheOne({ extractPropNamesFromJson(str) : str \in {Stringify(list)} })
extractPipelineProps(pipeline) ==
  TheOne({ extractPropNamesFromJson(str) : str \in {Stringify(pipeline)} })
extractReportProps(report) ==
  TheOne({ extractPropNamesFromJson(str) : str \in {Stringify(report)} })

\* what a Set of names holds for a value added to it
NameOf(val) == IF val.t = "str" THEN val.v ELSE val

\* marks a TypeError thrown while the form is walked
Thrown == <<"TypeError">>

\* for (const x of (val || [])) : the elements iterated over
Iterable(val) == ~Truthy(val) \/ val.t \in {"arr", "str"}
Elems(val) ==
  IF ~Truthy(val) THEN <<>>
  ELSE IF val.t = "arr" THEN val.v
  ELSE [k \in 1..Len(val.v) |-> JStr(<<val.v[k]>>)]

\* reading a property of null or undefined throws
HasProps(val) == val.t \notin {"null", "undefined"}

\* scanFields looking for conditional fields under dep.fields only
RECURSIVE scanFields_DepFieldsOnly(_)
scanFields_DepFieldsOnly(fields) ==
  IF ~Iterable(fields) THEN {Thrown}
  ELSE UNION {
    LET field == Elems(fields)[i]
        deps == Get(field, W_DEPFIELDS)
    IN IF ~HasProps(field) \/ ~Iterable(deps) THEN {Thrown}
       ELSE (IF Truthy(Get(field, W_NAME_KEY))
             THEN {NameOf(Get(field, W_NAME_KEY))} ELSE {})
            \cup UNION {
              IF ~HasProps(Elems(deps)[d]) THEN {Thrown}
              ELSE scanFields_DepFieldsOnly(Get(Elems(deps)[d], W_FIELDS))
              : d \in 1..Len(Elems(deps)) }
    : i \in 1..Len(Elems(fields)) }

RECURSIVE scanFields(_)
scanFields(fields) ==
  IF ~Iterable(fields) THEN {Thrown}
  ELSE UNION {
    LET field == Elems(fields)[i]
        deps == Get(field, W_DEPFIELDS)
    IN IF ~HasProps(field) \/ ~Iterable(deps) THEN {Thrown}
       ELSE (IF Truthy(Get(field, W_NAME_KEY))
             THEN {NameOf(Get(field, W_NAME_KEY))} ELSE {})
            \cup UNION {
              LET dep == Elems(deps)[d]
                  filters == Get(dep, W_DEPFILTERS)
              IN IF ~HasProps(dep) \/ ~Iterable(filters) THEN {Thrown}
                 ELSE UNION {
                        LET filter == Elems(filters)[f]
                        IN IF ~HasProps(filter) THEN {Thrown}
                           ELSE IF Truthy(Get(filter, W_DEPFORMFIELD))
                           THEN scanFields(JArr(<<Get(filter, W_DEPFORMFIELD)>>))
                           ELSE {}
                        : f \in 1..Len(Elems(filters)) }
                      \cup scanFields(Get(dep, W_FIELDS))
              : d \in 1..Len(Elems(deps)) }
    : i \in 1..Len(Elems(fields)) }

\* extractFormProps taking formFields for a flat list whatever its layout
extractFormProps_FlatOnly(form) ==
  LET groups == Get(form, W_FIELDGROUPS)
      v3 == IF ~Iterable(groups) THEN {Thrown}
            ELSE UNION { IF ~HasProps(Elems(groups)[g]) THEN {Thrown}
                         ELSE scanFields(Get(Elems(groups)[g], W_FIELDS))
                         : g \in 1..Len(Elems(groups)) }
      all == v3 \cup scanFields(Get(form, W_FORMFIELDS))
  IN IF Thrown \in all THEN {Thrown} ELSE all

\* the Set of names, or {Thrown} when walking the form throws
extractFormProps(form) ==
  LET groups == Get(form, W_FIELDGROUPS)
      v3 == IF ~Iterable(groups) THEN {Thrown}
            ELSE UNION { IF ~HasProps(Elems(groups)[g]) THEN {Thrown}
                         ELSE scanFields(Get(Elems(groups)[g], W_FIELDS))
                         : g \in 1..Len(Elems(groups)) }
      legacyFields == Get(form, W_FORMFIELDS)
      legacy == IF ~IsArray(legacyFields) THEN {}
                ELSE IF Len(legacyFields.v) > 0 /\ IsArray(legacyFields.v[1])
                THEN UNION { scanFields(legacyFields.v[r]) :
                             r \in 1..Len(legacyFields.v) }
                ELSE scanFields(legacyFields)
      all == v3 \cup legacy
  IN IF Thrown \in all THEN {Thrown} ELSE all

(***************************************************************************)
(* Cursor paginator and usage aggregator: the computations of              *)
(* paginateHubSpot and of POST /api/fetch-usage-context.                   *)
(***************************************************************************)
\* a || b
Or(a, b) == IF Truthy(a) THEN a ELSE b

\* val?.key
OptGet(val, key) == IF HasProps(val) THEN Get(val, key) ELSE Undefined

\* val ?? null
OrNull(val) == IF val.t \in {"undefined", "null"} THEN JNull ELSE val

\* String(val) as a template literal does it
ToText(val) ==
  CASE val.t = "str" -> val.v
    [] val.t = "num" -> DecChars(val.v)
    [] val.t = "bool" -> IF val.v THEN <<"t","r","u","e">> ELSE <<"f","a","l","s","e">>
    [] OTHER -> <<val.t>>

\* String.prototype.trim
RECURSIVE TrimStart(_)
TrimStart(s) == IF s # <<>> /\ Head(s) \in SpaceChars THEN TrimStart(Tail(s)) ELSE s
RECURSIVE TrimEnd(_)
TrimEnd(s) ==
  IF s # <<>> /\ s[Len(s)] \in SpaceChars THEN TrimEnd(SubSeq(s, 1, Len(s) - 1)) ELSE s
Trim(s) == TrimEnd(TrimStart(s))

PageLimit == 100

\* paginateHubSpot never sending the cursor it was given
RequestParams_NoCursor(extra, cursor) ==
  JObj(<<Entry(W_LIMIT, JNum(PageLimit))>> \o extra)

\* params: { limit: 100, ...extra, ...(after ? { after } : {}) }
\* (extra never holds a limit or an after key)
RequestParams(extra, cursor) ==
  JObj(<<Entry(W_LIMIT, JNum(PageLimit))>> \o extra
         \o (IF Truthy(cursor) THEN <<Entry(W_AFTER, cursor)>> ELSE <<>>))

\* res.data.paging?.next?.after ?? null
NextCursor(data) == OrNull(OptGet(OptGet(Get(data, W_PAGING), W_NEXT), W_AFTER))

\* const batch = res.data[key]; if (Array.isArray(batch)) items.push(...batch)
PushBatch(acc, data, key) ==
  IF IsArray(Get(data, key)) THEN acc \o Get(data, key).v ELSE acc

\* err.response?.data?.message || err.message
ErrorMessage(err) ==
  Or(OptGet(OptGet(Get(err, W_RESPONSE), W_DATA), W_MESSAGE), Get(err, W_MESSAGE))

\* the label that opens the warning of a source kind
WarningLabel(kind) ==
  CASE kind = "workflows" -> W_LBL_WORKFLOWS
    [] kind = "forms" -> W_LBL_FORMS
    [] kind = "lists" -> W_LBL_LISTS
    [] kind = "pipelines" -> W_LBL_PIPELINES
    [] kind = "emails" -> W_LBL_EMAILS
    [] kind = "reports" -> W_LBL_REPORTS

\* `${label}: ${err.response?.data?.message || err.message}`
Warning(kind, err) == WarningLabel(kind) \o <<":", " ">> \o ToText(ErrorMessage(err))

\* the name under which an item is listed in the provenance of a field
SourceName(kind, it) ==
  CASE kind = "workflows" ->
         IF Truthy(Get(it, W_NAME_KEY)) THEN NameOf(Get(it, W_NAME_KEY))
         ELSE Trim(W_WORKFLOW_SP \o ToText(Or(Get(it, W_ID), JStr(<<>>))))
    [] kind = "forms" ->
         NameOf(Or(Get(it, W_NAME_KEY), Or(Get(it, W_ID), JStr(W_UNNAMED_FORM))))
    [] kind = "lists" ->
         NameOf(Or(Get(it, W_NAME_KEY), Or(Get(it, W_LISTID), JStr(W_UNNAMED_LIST))))
    [] kind = "pipelines" ->
         NameOf(Or(Get(it, W_LABEL), Or(Get(it, W_ID), JStr(W_UNNAMED_PIPELINE))))
    [] kind = "emails" ->
         NameOf(Or(Get(it, W_NAME_KEY), Or(Get(it, W_ID), JStr(W_UNNAMED_EMAIL))))
    [] kind = "reports" ->
         NameOf(Or(Get(it, W_NAME_KEY), Or(Get(it, W_ID), JStr(W_UNNAMED_REPORT))))

\* the extractor the scan applies to the items of a source kind
ExtractorOf(kind, it) ==
  CASE kind = "workflows" -> extractWorkflowProps(it)
    [] kind = "forms" -> extractFormProps(it)
    [] kind = "lists" -> extractListProps(it)
    [] kind = "pipelines" -> extractPipelineProps(it)
    [] kind = "emails" -> extractEmailProps(it)
    [] kind = "reports" -> extractReportProps(it)

\* addUsage without the includes() test
addUsage_NoIncludes(details, propName, type, sourceName) ==
  LET d1 == IF propName \in DOMAIN details THEN details
            ELSE (propName :> <<>>) @@ details
      d2 == IF type \in DOMAIN d1[propName] THEN d1
            ELSE [d1 EXCEPT ![propName] = (type :> <<>>) @@ @]
  IN [d2 EXCEPT ![propName][type] = Append(@, sourceName)]

\* usageDetails is an object propName -> type -> array of source names; it
\* is modelled as a function of functions.  (Field names are taken not to
\* be names of Object.prototype members.)
addUsage(details, propName, type, sourceName) ==
  LET d1 == IF propName \in DOMAIN details THEN details
            ELSE (propName :> <<>>) @@ details
      d2 == IF type \in DOMAIN d1[propName] THEN d1
            ELSE [d1 EXCEPT ![propName] = (type :> <<>>) @@ @]
  IN IF sourceName \in Range(d2[propName][type]) THEN d2
     ELSE [d2 EXCEPT ![propName][type] = Append(@, sourceName)]

\* for (const name of extract...(it)) { props.add(name); addUsage(...) }
RECURSIVE AddNames(_, _, _, _)
AddNames(details, found, type, sourceName) ==
  IF found = {} THEN details
  ELSE TheOne({ TheOne({ AddNames(next, found \ {n}, type, sourceName) :
                         next \in {addUsage(details, n, type, sourceName)} }) :
                n \in {CHOOSE x \in found : TRUE} })

\* the loop over the fetched items of one source; it stops where an
\* extractor throws, keeping what the earlier items added
RECURSIVE Accumulate(_, _, _)
Accumulate(kind, its, acc) ==
  IF its = <<>> THEN acc
  ELSE TheOne({
         IF Thrown \in found THEN [acc EXCEPT !.threw = TRUE]
         ELSE TheOne({ Accumulate(kind, Tail(its), next) :
                next \in {[acc EXCEPT
                            !.props = @ \cup found,
                            !.details = AddNames(@, found, kind,
                                                 SourceName(kind, Head(its)))]} }) :
         found \in {ExtractorOf(kind, Head(its))} })

\* the TypeError of a walk that throws, as the catch block sees it
WalkError == JObj(<<Entry(W_MESSAGE, JStr(<<"T","y","p","e","E","r","r","o","r">>))>>)

(***************************************************************************)
(* Inputs of the reference extractor: content items as the CRM returns     *)
(* them, built from key and value pools.                                   *)
(***************************************************************************)
\* {{source.field}} as it is written in a text field
Placeholder(source, field) ==
  <<"{", "{">> \o source \o <<".">> \o field \o <<"}", "}">>

KeyPrefixes ==
  { <<>>, W_FILTER, W_FROM, <<"h","s","_">>, <<"x","2">>, <<"a",Quote>> }
KeyStems ==
  { W_PROP_L, W_PROP_C, W_PROP_U,
    W_PROP_L \o W_NAME_C, W_PROP_C \o W_NAME_C, W_PROP_L \o W_NAME_L,
    W_PROP_C \o W_NAME_U }
KeyTails == { <<>>, W_TYPE, <<"s">> }
PropertyKeys ==
  { pre \o stem \o tail : pre \in KeyPrefixes, stem \in KeyStems, tail \in KeyTails }
OtherKeys == { W_SUBJECT, <<"i","d">> }

IdentTexts == { W_LEAD, W_FAV, <<"a","b">>, <<"a","1","_">>, <<"z">> }
NonIdentTexts ==
  { W_ENUM, <<"1","a">>, <<"_","x">>, <<"a","B">>, <<>>, <<"a"," ","b">>, <<"a","-">> }
TokenTexts ==
  { Placeholder(W_CONTACT, W_FAV),
    <<"H","i"," ">> \o Placeholder(W_CONTACT, <<"a","b">>) \o <<"!">>,
    Placeholder(<<"m","y","_","o">>, <<"a","1","_">>),
    Placeholder(<<"c">>, <<"1","a">>),
    Placeholder(<<"c">>, <<"_","x">>),
    Placeholder(<<"C">>, <<"a","b">>),
    Placeholder(<<"c","2">>, <<"a","b">>),
    Placeholder(<<>>, <<"a","b">>),
    Placeholder(<<"c">>, <<>>),
    Placeholder(<<"c">>, <<"a","B">>),
    <<"{">> \o Placeholder(<<"c">>, <<"z">>) \o <<"}">>,
    <<"{", "c", ".", "z", "}">>,
    Placeholder(<<"c">>, <<"a","b">>) \o Placeholder(<<"d">>, <<"z">>),
    <<Quote>> \o W_PROP_L \o <<Quote, ":", Quote, "z", Quote>>,
    <<"x", Quote>> \o W_PROP_L }
TextValues ==
  { JStr(x) : x \in IdentTexts \cup NonIdentTexts \cup TokenTexts }
ScalarValues == { JNum(7), JBool(TRUE), JNull }

\* values that tell the key patterns apart, and keys that tell the values apart
ProbeValues ==
  { JStr(<<"z">>), JStr(W_LEAD), JStr(W_ENUM), JStr(<<"a","B">>), JNum(7) }
ProbeKeys == { W_SUBJECT, W_PROP_L, W_FROM \o W_PROP_C \o W_NAME_C }

\* one entry per item: every key of the pools with the probe values, and
\* every value of the pools under the probe keys
SingleEntryItems ==
  { JObj(<<Entry(k, val)>>) : k \in PropertyKeys \cup OtherKeys, val \in ProbeValues }
    \cup { JObj(<<Entry(k, val)>>) :
           k \in ProbeKeys, val \in TextValues \cup ScalarValues }

\* a small pool combined into items of several entries
CoreEntries ==
  { Entry(W_FILTER \o W_PROP_C, JStr(W_LEAD)),
    Entry(W_PROP_L \o W_TYPE, JStr(W_ENUM)),
    Entry(<<"h","s","_">> \o W_PROP_L, JStr(<<"z">>)),
    Entry(W_SUBJECT, JStr(Placeholder(W_CONTACT, W_FAV))),
    Entry(W_PROP_L, JStr(W_FAV)) }

RECURSIVE EntrySeqs(_)
EntrySeqs(n) ==
  IF n = 0 THEN { <<>> }
  ELSE LET shorter == EntrySeqs(n - 1)
       IN shorter \cup
          { Append(es, e) : es \in { x \in shorter : Len(x) = n - 1 },
                            e \in CoreEntries }

DistinctKeys(es) == \A i, j \in 1..Len(es) : es[i].k = es[j].k => i = j

MultiEntryItems ==
  { JObj(es) : es \in { x \in EntrySeqs(MaxEntries) : Len(x) >= 1 /\ DistinctKeys(x) } }

\* an item put inside an array, or under a key of an enclosing object
RECURSIVE Nested(_, _)
Nested(base, depth) ==
  IF depth = 0 THEN base
  ELSE LET inner == Nested(base, depth - 1)
       IN inner
          \cup { JArr(<<x, JStr(<<"z">>)>>) : x \in inner }
          \cup { JObj(<<Entry(<<"i","d">>, JNum(7)), Entry(W_PROP_L, x)>>) : x \in inner }

ExtractItems ==
  SingleEntryItems \cup Nested(MultiEntryItems, MaxDepth)

(***************************************************************************)
(* Inputs of the form walk: forms in the current (fieldGroups) and the     *)
(* legacy (formFields) layout, with conditional fields.                    *)
(***************************************************************************)
Field(name) == JObj(<<Entry(W_NAME_KEY, JStr(name))>>)
FieldWith(name, dep) ==
  JObj(<<Entry(W_NAME_KEY, JStr(name)), Entry(W_DEPFIELDS, JArr(<<dep>>))>>)
\* a dependent entry holding its conditional field the current way ...
CurrentDep(f) ==
  JObj(<<Entry(W_DEPFILTERS, JArr(<<JObj(<<Entry(W_DEPFORMFIELD, f)>>)>>))>>)
\* ... and the legacy way
LegacyDep(f) == JObj(<<Entry(W_FIELDS, JArr(<<f>>))>>)

LeafFields ==
  { Field(W_FIRSTNAME), Field(W_LEAD), Field(<<>>),
    JObj(<<Entry(<<"i","d">>, JNum(7))>>) }

RECURSIVE FormFields(_)
FormFields(nest) ==
  IF nest = 0 THEN LeafFields
  ELSE LET inner == FormFields(nest - 1)
       IN LeafFields
          \cup { FieldWith(W_EMAIL, CurrentDep(f)) : f \in inner }
          \cup { FieldWith(W_EMAIL, LegacyDep(f)) : f \in inner }

FieldLists ==
  { <<f>> : f \in FormFields(MaxNest) }
    \cup { <<f, g>> : f \in LeafFields, g \in LeafFields }

Group(fields) == JObj(<<Entry(W_FIELDS, JArr(fields))>>)

CurrentLayouts ==
  { <<>>, <<Entry(W_FIELDGROUPS, JArr(<<>>))>> }
    \cup { <<Entry(W_FIELDGROUPS, JArr(<<Group(l)>>))>> : l \in FieldLists }
    \cup { <<Entry(W_FIELDGROUPS, JArr(<<Group(<<f>>), Group(<<g>>)>>))>> :
           f \in LeafFields, g \in LeafFields }

LegacyLayouts ==
  { <<>>, <<Entry(W_FORMFIELDS, JArr(<<>>))>> }
    \cup { <<Entry(W_FORMFIELDS, JArr(l))>> : l \in FieldLists }
    \cup { <<Entry(W_FORMFIELDS, JArr(<<JArr(l)>>))>> : l \in FieldLists }
    \cup { <<Entry(W_FORMFIELDS, JArr(<<JArr(<<f>>), JArr(<<g>>)>>))>> :
           f \in LeafFields, g \in LeafFields }

FormItems ==
  { JObj(<<Entry(<<"i","d">>, JStr(<<"f","1">>))>> \o cur \o leg) :
      cur \in CurrentLayouts, leg \in LegacyLayouts }

(***************************************************************************)
(* The CRM as the usage scan sees it: the items it may serve for each      *)
(* source and the ways a request may fail.                                 *)
(***************************************************************************)
Wf_Welcome ==
  JObj(<<Entry(W_NAME_KEY, JStr(W_WELCOME)),
         Entry(W_ACTIONS, JArr(<<JObj(<<Entry(W_PROP_L \o W_NAME_C, JStr(W_LEAD))>>)>>)),
         Entry(W_SUBJECT, JStr(Placeholder(W_CONTACT, W_LEAD)))>>)
Wf_Welcome2 ==
  JObj(<<Entry(W_NAME_KEY, JStr(W_WELCOME)),
         Entry(W_FILTER \o W_PROP_C, JStr(W_LEAD)), Entry(W_PROP_L, JStr(W_EMAIL))>>)
Wf_Unnamed ==
  JObj(<<Entry(W_ID, JNum(5)), Entry(W_PROP_L, JStr(W_EMAIL))>>)
Fo_Welcome ==
  JObj(<<Entry(W_NAME_KEY, JStr(W_WELCOME)),
         Entry(W_FIELDGROUPS, JArr(<<Group(<<Field(W_EMAIL), Field(W_FIRSTNAME)>>)>>))>>)
\* a form one of whose field entries is null: walking it throws
Fo_Broken ==
  JObj(<<Entry(W_NAME_KEY, JStr(W_SALES)),
         Entry(W_FIELDGROUPS, JArr(<<Group(<<Field(W_LEAD), JNull>>)>>))>>)
Fo_Legacy ==
  JObj(<<Entry(W_ID, JStr(<<"f","2">>)),
         Entry(W_FORMFIELDS, JArr(<<Field(W_LEAD)>>))>>)
Li_Welcome ==
  JObj(<<Entry(W_NAME_KEY, JStr(W_WELCOME)),
         Entry(W_BRANCH, JObj(<<Entry(W_PROP_L, JStr(W_LEAD))>>))>>)
Li_Unnamed ==
  JObj(<<Entry(W_LISTID, JStr(<<"9">>)),
         Entry(W_SUBJECT, JStr(Placeholder(W_CONTACT, W_EMAIL)))>>)
Pi_Sales ==
  JObj(<<Entry(W_LABEL, JStr(W_SALES)),
         Entry(W_STAGES, JArr(<<JObj(<<Entry(W_REQUIRED \o W_PROP_C, JStr(W_AMOUNT))>>)>>))>>)
Pi_Unnamed == JObj(<<Entry(W_PROP_L \o W_TYPE, JStr(W_ENUM))>>)
Em_Welcome ==
  JObj(<<Entry(W_NAME_KEY, JStr(W_WELCOME)),
         Entry(W_SUBJECT, JStr(<<"H","i"," ">> \o Placeholder(W_CONTACT, W_EMAIL)))>>)
Em_Unnamed ==
  JObj(<<Entry(W_ID, JStr(<<"e","2">>)), Entry(W_PROP_L, JStr(W_EMAIL))>>)
Re_Sales ==
  JObj(<<Entry(W_NAME_KEY, JStr(W_SALES)),
         Entry(W_FILTER \o W_PROP_C, JStr(W_AMOUNT))>>)
Re_Unnamed == JObj(<<Entry(W_PROP_L, JStr(W_LEAD))>>)

\* the items the account holds for each source, in the order the CRM lists
\* them
Stock(kind) ==
  CASE kind = "workflows" -> <<Wf_Welcome, Wf_Welcome2, Wf_Unnamed>>
    [] kind = "forms" -> <<Fo_Welcome, Fo_Broken, Fo_Legacy>>
    [] kind = "lists" -> <<Li_Welcome, Li_Unnamed>>
    [] kind = "pipelines" -> <<Pi_Sales, Pi_Unnamed>>
    [] kind = "emails" -> <<Em_Welcome, Em_Unnamed>>
    [] kind = "reports" -> <<Re_Sales, Re_Unnamed>>

\* a request is refused by the CRM (with a message), or does not get through
HttpError ==
  JObj(<<Entry(W_RESPONSE,
               JObj(<<Entry(W_DATA, JObj(<<Entry(W_MESSAGE, JStr(W_UNAUTHORIZED))>>))>>)),
         Entry(W_MESSAGE, JStr(W_STATUS401))>>)
TransportError == JObj(<<Entry(W_MESSAGE, JStr(W_TIMEOUT))>>)
Errors == {HttpError, TransportError}

\* the cursor the CRM hands out with page number n of a source
CursorAfter(n) == JStr(DecChars(n * PageLimit))

\* the body of a page: the item array under its key (or no array), and a
\* paging section when another page follows
PageBody(key, batch, hasArray, cursor) ==
  JObj((IF hasArray THEN <<Entry(key, JArr(batch))>> ELSE <<>>)
       \o (IF cursor = JNull THEN <<>>
           ELSE <<Entry(W_PAGING,
                        JObj(<<Entry(W_NEXT, JObj(<<Entry(W_AFTER, cursor)>>))>>))>>))

(***************************************************************************)
(* Name sanitizer and option list parser: toInternalName, parseOptions.    *)
(***************************************************************************)
NameLimit == 250

\* [a-z0-9_]
NameChars == Lower \cup Digit \cup {"_"}

\* .replace(/\s+/g, '_') : every maximal run of whitespace becomes one '_'
CollapseSpaces(s) ==
  LET Marked == [k \in 1..Len(s) |->
                   IF s[k] \notin SpaceChars THEN s[k]
                   ELSE IF k > 1 /\ s[k - 1] \in SpaceChars THEN "" ELSE "_"]
      Kept(c) == c # ""
  IN SelectSeq(Marked, Kept)

\* .replace(/[^a-z0-9_]/g, '')
OnlyNameChars(s) ==
  LET IsNameChar(c) == c \in NameChars
  IN SelectSeq(s, IsNameChar)

\* name.slice(0, n)
SliceTo(s, n) == SubSeq(s, 1, IF Len(s) < n THEN Len(s) ELSE n)

\* the chain label.toLowerCase().trim().replace(...).replace(...)
CleanName(text) ==
  TheOne({ TheOne({ TheOne({ OnlyNameChars(collapsed) :
                             collapsed \in {CollapseSpaces(trimmed)} }) :
                    trimmed \in {Trim(lowered)} }) :
           lowered \in {ToLower(text)} })

\* toInternalName that leaves a leading digit alone
toInternalName_NoPrefix(text) ==
  TheOne({ SliceTo(name, NameLimit) : name \in {CleanName(text)} })

\* toInternalName that cuts to 250 characters before it looks at the first one
toInternalName_SliceFirst(text) ==
  TheOne({ IF name # <<>> /\ name[1] \in Digit THEN <<"p", "_">> \o name ELSE name :
           name \in {SliceTo(CleanName(text), NameLimit)} })

toInternalName(text) ==
  TheOne({ SliceTo(IF name # <<>> /\ name[1] \in Digit THEN <<"p", "_">> \o name
                   ELSE name, NameLimit) :
           name \in {CleanName(text)} })

\* String.prototype.split with a one-character separator
RECURSIVE Split(_, _)
Split(s, sep) ==
  LET cuts == {k \in 1..Len(s) : s[k] = sep}
  IN IF cuts = {} THEN <<s>>
     ELSE TheOne({ <<SubSeq(s, 1, k - 1)>> \o Split(SubSeq(s, k + 1, Len(s)), sep) :
                   k \in {Least(cuts)} })

TrimAll(pieces) == [k \in 1..Len(pieces) |-> Trim(pieces[k])]

\* .filter(Boolean) on an array of strings
NonEmptyOnes(pieces) ==
  LET NonEmpty(piece) == piece # <<>>
  IN SelectSeq(pieces, NonEmpty)

W_OPTION_ == <<"o","p","t","i","o","n","_">>

\* (label, i) => ({ label, value: toInternalName(label) || `option_${i}`, ... })
Option(text, k) ==
  TheOne({ [label |-> text,
            value |-> IF name # <<>> THEN name ELSE W_OPTION_ \o DecChars(k),
            displayOrder |-> k,
            hidden |-> FALSE] :
           name \in {toInternalName(text)} })

\* parseOptions numbering the options by the position of their piece
parseOptions_SplitIndex(optionsStr) ==
  IF optionsStr = <<>> \/ Trim(optionsStr) = <<>> THEN <<>>
  ELSE TheOne({ [k \in 1..Len(SelectSeq(pieces, LAMBDA x : x # <<>>)) |->
                   Option(SelectSeq(pieces, LAMBDA x : x # <<>>)[k],
                          (CHOOSE n \in 1..Len(pieces) :
                             /\ pieces[n] # <<>>
                             /\ Len(SelectSeq(SubSeq(pieces, 1, n),
                                              LAMBDA x : x # <<>>)) = k) - 1)] :
                pieces \in {TrimAll(Split(optionsStr, ";"))} })

parseOptions(optionsStr) ==
  IF optionsStr = <<>> \/ Trim(optionsStr) = <<>> THEN <<>>
  ELSE TheOne({ [k \in 1..Len(kept) |-> Option(kept[k], k - 1)] :
                kept \in {NonEmptyOnes(TrimAll(Split(optionsStr, ";")))} })

(***************************************************************************)
(* POST /api/create-property: tables, group resolution, request body.      *)
(***************************************************************************)
W_TOKEN == <<"t","o","k","e","n">>
W_OBJECTTYPE == <<"o","b","j","e","c","t","T","y","p","e">>
W_PROPERTY == <<"p","r","o","p","e","r","t","y">>
W_DEFAULTGROUP == <<"d","e","f","a","u","l","t","G","r","o","u","p">>
W_NAME_COL == <<"N","a","m","e">>
W_TYPE_COL == <<"T","y","p","e">>
W_DESCRIPTION_COL == <<"D","e","s","c","r","i","p","t","i","o","n">>
W_OPTIONS_COL == <<"O","p","t","i","o","n","s">>
W_TYPE_KEY == <<"t","y","p","e">>
W_FIELDTYPE == <<"f","i","e","l","d","T","y","p","e">>
W_GROUPNAME == <<"g","r","o","u","p","N","a","m","e">>
W_DESCRIPTION == <<"d","e","s","c","r","i","p","t","i","o","n">>
W_OPTIONS == <<"o","p","t","i","o","n","s">>
W_ENUMERATION == <<"e","n","u","m","e","r","a","t","i","o","n">>
W_SUCCESS == <<"s","u","c","c","e","s","s">>
W_ERROR == <<"e","r","r","o","r">>
W_INTERNALNAME == <<"i","n","t","e","r","n","a","l","N","a","m","e">>
W_HUBSPOTDEFINED == <<"h","u","b","s","p","o","t","D","e","f","i","n","e","d">>
W_STATUS == <<"s","t","a","t","u","s">>
W_ERRORS == <<"e","r","r","o","r","s">>
W_INFORMATION == <<"i","n","f","o","r","m","a","t","i","o","n">>
W_CONTACTS == <<"c","o","n","t","a","c","t","s">>
W_COMPANIES == <<"c","o","m","p","a","n","i","e","s">>
W_DEALS == <<"d","e","a","l","s">>
W_TICKETS == <<"t","i","c","k","e","t","s">>
W_PRODUCTS == <<"p","r","o","d","u","c","t","s">>
W_COMPANY == <<"c","o","m","p","a","n","y">>
W_DEAL == <<"d","e","a","l">>
W_TICKET == <<"t","i","c","k","e","t">>
W_PRODUCT == <<"p","r","o","d","u","c","t">>
W_CUSTOM_TYPE == <<"2","-","1","2","3">>
W_CONSTRUCTOR == <<"c","o","n","s","t","r","u","c","t","o","r">>
W_MISSING_FIELDS == <<"M","i","s","s","i","n","g"," ","r","e","q","u","i","r","e","d"," ","f","i","e","l","d","s",".">>
W_UNKNOWN_TYPE == <<"U","n","k","n","o","w","n"," ","p","r","o","p","e","r","t","y"," ","t","y","p","e",":"," ">>
W_UNKNOWN_ERROR == <<"U","n","k","n","o","w","n"," ","e","r","r","o","r">>
W_EXISTS == <<"P","r","o","p","e","r","t","y"," ","a","l","r","e","a","d","y"," ","e","x","i","s","t","s">>
W_STATUS409 == <<"s","t","a","t","u","s"," ","4","0","9">>
W_INVALID == <<"I","n","v","a","l","i","d"," ","i","n","p","u","t">>
W_STATUS400 == <<"s","t","a","t","u","s"," ","4","0","0">>
W_STRING == <<"s","t","r","i","n","g">>
W_NUMBER == <<"n","u","m","b","e","r">>
W_DATE == <<"d","a","t","e">>
W_DATETIME == <<"d","a","t","e","t","i","m","e">>
W_SELECT == <<"s","e","l","e","c","t">>
W_RADIO == <<"r","a","d","i","o">>
W_CHECKBOX == <<"c","h","e","c","k","b","o","x">>
W_TEXT == <<"t","e","x","t">>
W_TEXTAREA == <<"t","e","x","t","a","r","e","a">>
W_PHONENUMBER == <<"p","h","o","n","e","n","u","m","b","e","r">>
W_HTML == <<"h","t","m","l">>
W_T_DROPDOWN == <<"D","r","o","p","-","d","o","w","n"," ","S","e","l","e","c","t">>
W_T_RADIO == <<"R","a","d","i","o"," ","S","e","l","e","c","t">>
W_T_CHECKBOXES == <<"M","u","l","t","i","p","l","e"," ","C","h","e","c","k","b","o","x","e","s">>
W_T_SINGLE == <<"S","i","n","g","l","e"," ","L","i","n","e"," ","T","e","x","t">>
W_T_MULTI == <<"M","u","l","t","i","-","l","i","n","e"," ","T","e","x","t">>
W_T_PHONE == <<"P","h","o","n","e"," ","N","u","m","b","e","r">>
W_T_URL == <<"U","R","L">>
W_T_RICH == <<"R","i","c","h"," ","T","e","x","t">>
W_T_NUMBER == <<"N","u","m","b","e","r">>
W_T_DATE == <<"D","a","t","e"," ","P","i","c","k","e","r">>
W_T_DATETIME == <<"D","a","t","e"," ","a","n","d"," ","T","i","m","e"," ","P","i","c","k","e","r">>
W_T_CHECKBOX == <<"C","h","e","c","k","b","o","x">>
W_DEAL_SIZE == <<"D","e","a","l"," ","S","i","z","e">>
W_COLOR == <<"C","o","l","o","r">>
W_RED_BLUE == <<"R","e","d",";"," ","B","l","u","e">>
W_1ST == <<"1","s","t"," ","C","a","l","l">>
W_G_HUBSPOT == <<"h","s","_","g","r","o","u","p">>
W_G_OWN == <<"p","1","2","3","_","c","a","r","_","i","n","f","o","r","m","a","t","i","o","n">>
W_G_OTHER == <<"e","x","t","r","a","s">>
W_G_CALLER == <<"m","y","_","g","r","o","u","p">>

W_TOTAL == <<"t","o","t","a","l">>

\* no element occurs twice
NoRepeat(q) == \A i, j \in 1..Len(q) : q[i] = q[j] => i = j

\* a function value, e.g. a method inherited from Object.prototype
JFunction(name) == [t |-> "function", v |-> name]

\* the members every object literal inherits that the inputs can name
ObjectPrototype == {W_CONSTRUCTOR}

\* table[key] on an object literal: own entries first, then inherited members
Member(table, key) ==
  IF Get(table, key) # Undefined THEN Get(table, key)
  ELSE IF key \in ObjectPrototype THEN JFunction(key)
  ELSE Undefined

TypeInfo(type, fieldType, enumeration) ==
  JObj(<<Entry(W_TYPE_KEY, JStr(type)), Entry(W_FIELDTYPE, JStr(fieldType))>>
       \o (IF enumeration THEN <<Entry(W_ENUMERATION, JBool(TRUE))>> ELSE <<>>))

PROPERTY_TYPES ==
  JObj(<<Entry(W_T_DROPDOWN, TypeInfo(W_ENUMERATION, W_SELECT, TRUE)),
         Entry(W_T_RADIO, TypeInfo(W_ENUMERATION, W_RADIO, TRUE)),
         Entry(W_T_CHECKBOXES, TypeInfo(W_ENUMERATION, W_CHECKBOX, TRUE)),
         Entry(W_T_SINGLE, TypeInfo(W_STRING, W_TEXT, FALSE)),
         Entry(W_T_MULTI, TypeInfo(W_STRING, W_TEXTAREA, FALSE)),
         Entry(W_T_PHONE, TypeInfo(W_STRING, W_PHONENUMBER, FALSE)),
         Entry(W_T_URL, TypeInfo(W_STRING, W_TEXT, FALSE)),
         Entry(W_T_RICH, TypeInfo(W_STRING, W_HTML, FALSE)),
         Entry(W_T_NUMBER, TypeInfo(W_NUMBER, W_NUMBER, FALSE)),
         Entry(W_T_DATE, TypeInfo(W_DATE, W_DATE, FALSE)),
         Entry(W_T_DATETIME, TypeInfo(W_DATETIME, W_DATE, FALSE))>>)

DEFAULT_GROUPS ==
  JObj(<<Entry(W_CONTACTS, JStr(W_CONTACT \o W_INFORMATION)),
         Entry(W_COMPANIES, JStr(W_COMPANY \o W_INFORMATION)),
         Entry(W_DEALS, JStr(W_DEAL \o W_INFORMATION)),
         Entry(W_TICKETS, JStr(W_TICKET \o W_INFORMATION)),
         Entry(W_PRODUCTS, JStr(W_PRODUCT \o W_INFORMATION))>>)

\* `${objectType}information`
GuessedGroup(objectType) == JStr(ToText(objectType) \o W_INFORMATION)

\* groups.find(g => !g.hubspotDefined) || groups[0], the entries being objects
FirstOwn(groups) ==
  LET own == {k \in 1..Len(groups) : ~Truthy(Get(groups[k], W_HUBSPOTDEFINED))}
  IN IF own # {} THEN groups[Least(own)]
     ELSE IF groups # <<>> THEN groups[1]
     ELSE Undefined

\* resolveGroupName once the group listing has been answered with `data`
GroupFromListing(objectType, data) ==
  LET results == Or(Get(data, W_RESULTS), JArr(<<>>))
      preferred == FirstOwn(results.v)
  IN IF Truthy(preferred) THEN Get(preferred, W_NAME_KEY)
     ELSE GuessedGroup(objectType)

\* parseOptions(property.Options)
OptionsOf(property) ==
  LET optionsStr == Get(property, W_OPTIONS_COL)
  IN IF optionsStr.t = "str" THEN parseOptions(optionsStr.v) ELSE <<>>

\* JSON.stringify leaves out a member whose value is undefined or a function
Sendable(entries) ==
  LET Kept(e) == e.v.t \notin {"undefined", "function"}
  IN SelectSeq(entries, Kept)

\* the body of the create request sent to the CRM
CreateBody(property, typeInfo, group) ==
  JObj(Sendable(
    <<Entry(W_NAME_KEY, JStr(toInternalName(Get(property, W_NAME_COL).v))),
      Entry(W_LABEL, Get(property, W_NAME_COL)),
      Entry(W_TYPE_KEY, Get(typeInfo, W_TYPE_KEY)),
      Entry(W_FIELDTYPE, Get(typeInfo, W_FIELDTYPE)),
      Entry(W_GROUPNAME, group),
      Entry(W_DESCRIPTION, Or(Get(property, W_DESCRIPTION_COL), JStr(<<>>)))>>
    \o (IF Truthy(Get(typeInfo, W_ENUMERATION))
        THEN <<Entry(W_OPTIONS, JArr(OptionsOf(property)))>> ELSE <<>>)))

\* hsError?.message || hsError?.errors?.[0]?.message || err.message || 'Unknown error'
FirstError(hsError) ==
  LET errors == OptGet(hsError, W_ERRORS)
  IN IF errors.t = "arr" /\ errors.v # <<>> THEN OptGet(errors.v[1], W_MESSAGE)
     ELSE Undefined

CreateErrorMessage(err) ==
  LET hsError == OptGet(Get(err, W_RESPONSE), W_DATA)
  IN Or(Or(Or(OptGet(hsError, W_MESSAGE), FirstError(hsError)),
           Get(err, W_MESSAGE)),
        JStr(W_UNKNOWN_ERROR))

BadRequest == 400
ServerError == 500
Ok == 200

\* PROPERTY_TYPES[property.Type]
TypeOf(property) ==
  LET type == Get(property, W_TYPE_COL)
  IN IF type.t = "str" THEN Member(PROPERTY_TYPES, type.v) ELSE Undefined

\* err.response?.status || 500
CreateErrorStatus(err) ==
  LET status == OptGet(Get(err, W_RESPONSE), W_STATUS)
  IN IF Truthy(status) THEN status.v ELSE ServerError

Reply(status, body) == [status |-> status, body |-> body]

Failure(status, message) ==
  Reply(status, JObj(<<Entry(W_SUCCESS, JBool(FALSE)), Entry(W_ERROR, message)>>))

\* a call the server makes to the CRM
Call(what, objectType, body) == [call |-> what, objectType |-> objectType, body |-> body]

(***************************************************************************)
(* State.                                                                  *)
(***************************************************************************)
VARIABLES
  item,          \* the content item handed to the extractors
  names,         \* names[k] : the Set extractor k returned, for each one applied
  token,         \* req.body.token of the usage scan
  pc,            \* where the scan handler stands: the fetch it issues next
  items,         \* paginateHubSpot: the items collected so far
  after,         \* paginateHubSpot: the cursor for the next request
  trace,         \* the requests of the latest paginateHubSpot call, with the
                 \* answers of the CRM, until the scan issues another fetch
  served,        \* the items the CRM has served in this scan, per source kind
  asked,         \* the fetches the CRM has received a request for
  failed,        \* the source kinds one of whose requests failed
  warnings,      \* warnings
  props,         \* workflowProps, formProps, ... : one Set per source kind
  count,         \* workflowCount, formCount, ... : one counter per source kind
  usageDetails,  \* usageDetails
  fetched,       \* the array paginateHubSpot returned for a paginated source
  response,      \* what the handler answered
  outage,        \* the way requests fail during this scan
  label,         \* the string handed to toInternalName or parseOptions
  out,           \* what toInternalName and parseOptions returned for it
  req,           \* create-property: req.body of the request being handled
  hpc,           \* create-property: where the handler stands
  groupName,     \* create-property: groupName
  reply,         \* create-property: the answer sent (status and JSON body)
  crmLog,        \* the calls the server has made to the CRM, in order
  listing,       \* what the CRM answers when asked for the property groups
  parsedRows,    \* app.js: parsedRows
  objectType,    \* app.js: the value of the objectType select
  successCount,  \* createProperties: successCount
  failCount,     \* createProperties: failCount
  allProperties, \* app.js: allProperties
  customProps,   \* analyzeUsage: customProps
  pendingDelete, \* app.js: pendingDelete
  queue,         \* confirmDelete: names
  deleted,       \* confirmDelete: deleted
  deleteFailed,  \* confirmDelete: failed
  fpc,           \* where the running function of app.js stands
  loopI,         \* the loop index i of the running function of app.js
  sent,          \* the rows a request was issued for, in the order of issue
  inFlight,      \* the rows whose request has been issued and not yet settled
  outcomes,      \* how the request of each row ended, in the order of arrival
  slept,         \* the sleep() pauses completed by the running function, in ms
  isCreating,    \* app.js: isCreating
  createBtnDisabled, \* the disabled attribute of the create button
  batchTotal,    \* createProperties: total
  batchRows,     \* parsedRows as it was when the running batch started
  batches,       \* the calls of createProperties that are past the lock
                 \* and have not ended
  upload,        \* processFile: the rows of the file being parsed, if any
  cells,         \* the _recordCount and _inWorkflow ... _inEmail fields of the
                 \* entries of allProperties, by property name and column
  analysisStarted,    \* app.js: analysisStarted
  analyzeBtnDisabled, \* the disabled attribute of the analyze button
  runs,          \* the calls of analyzeUsage, in the order of their start
  loadPending,   \* loadProperties: the object type being listed, if any
  generation,    \* how many times loadProperties has replaced allProperties
  filterUsage,   \* the value of the filterUsage select
  tableRows,     \* the names that have a row in the properties table
  selection      \* the names whose checkbox is checked

extractVars == <<item, names>>
scanVars ==
  <<token, pc, items, after, trace, served, asked, failed, warnings, props,
    count, usageDetails, fetched, response, outage>>
textVars == <<label, out>>
handlerVars == <<req, hpc, groupName, reply, crmLog, listing>>
createVars == <<parsedRows, successCount, failCount>>
manageVars == <<allProperties, customProps, pendingDelete, queue, deleted, deleteFailed>>
loopVars == <<fpc, loopI, sent, inFlight, outcomes, slept>>
lockVars == <<isCreating, createBtnDisabled, batchTotal, batchRows, batches, upload>>
panelVars ==
  <<cells, analysisStarted, analyzeBtnDisabled, runs, loadPending, generation,
    filterUsage, tableRows, selection>>
uiVars == <<lockVars, panelVars>>
appVars == <<objectType, createVars, manageVars, loopVars>>
otherVars == <<textVars, handlerVars, appVars, uiVars>>
vars == <<extractVars, scanVars, otherVars>>

Kinds == {"workflows", "forms", "lists", "pipelines", "emails", "reports"}
Paginated == {"workflows", "forms", "lists", "emails"}
PipelineObjects == {"deals", "tickets"}

NoTrace == [kind |-> "none", exchanges |-> <<>>]

NoResponse ==
  [status |-> 0, success |-> FALSE, error |-> <<>>, props |-> <<>>,
   usageDetails |-> <<>>, count |-> <<>>, warnings |-> <<>>]

ScanIdle ==
  /\ token = <<>>
  /\ pc = "idle"
  /\ items = <<>>
  /\ after = JNull
  /\ trace = NoTrace
  /\ served = [k \in Kinds |-> <<>>]
  /\ asked = {}
  /\ failed = {}
  /\ warnings = <<>>
  /\ props = [k \in Kinds |-> {}]
  /\ count = [k \in Kinds |-> 0]
  /\ usageDetails = <<>>
  /\ fetched = [k \in Paginated |-> <<>>]
  /\ response = NoResponse
  /\ outage = TransportError

ExtractIdle ==
  /\ item = JNull
  /\ names = <<>>

TextIdle ==
  /\ label = <<>>
  /\ out = <<>>

NoReply == [status |-> 0, body |-> JNull]

HandlerIdle ==
  /\ req = JNull
  /\ hpc = "idle"
  /\ groupName = Undefined
  /\ reply = NoReply
  /\ crmLog = <<>>
  /\ listing = JNull

ManageIdle ==
  /\ allProperties = <<>>
  /\ customProps = <<>>
  /\ pendingDelete = <<>>
  /\ queue = <<>>
  /\ deleted = 0
  /\ deleteFailed = 0

CreateIdle ==
  /\ parsedRows = <<>>
  /\ successCount = 0
  /\ failCount = 0

AppIdle ==
  /\ objectType = <<>>
  /\ CreateIdle
  /\ ManageIdle
  /\ fpc = "idle"
  /\ loopI = 0
  /\ sent = <<>>
  /\ inFlight = {}
  /\ outcomes = <<>>
  /\ slept = <<>>

NoUpload == {}

LockIdle ==
  /\ isCreating = FALSE
  /\ createBtnDisabled = TRUE
  /\ batchTotal = 0
  /\ batchRows = <<>>
  /\ batches = 0
  /\ upload = NoUpload

PanelIdle ==
  /\ cells = <<>>
  /\ analysisStarted = FALSE
  /\ analyzeBtnDisabled = TRUE
  /\ runs = <<>>
  /\ loadPending = {}
  /\ generation = 0
  /\ filterUsage = "all"
  /\ tableRows = {}
  /\ selection = {}

UiIdle == LockIdle /\ PanelIdle

OtherIdle == TextIdle /\ HandlerIdle /\ AppIdle /\ UiIdle

Applied(k) == k \in DOMAIN names
Record(k, result) == names' = (k :> result) @@ names

(***************************************************************************)
(* The reference extractor applied to one item.                            *)
(***************************************************************************)
ExtractInit ==
  /\ item \in ExtractItems
  /\ names = <<>>
  /\ ScanIdle
  /\ OtherIdle

ExtractWorkflow ==
  /\ ~Applied("workflows")
  /\ Record("workflows", extractWorkflowProps(item))
  /\ UNCHANGED <<item, scanVars, otherVars>>

ExtractEmail ==
  /\ ~Applied("emails")
  /\ Record("emails", extractEmailProps(item))
  /\ UNCHANGED <<item, scanVars, otherVars>>

ExtractList ==
  /\ ~Applied("lists")
  /\ Record("lists", extractListProps(item))
  /\ UNCHANGED <<item, scanVars, otherVars>>

ExtractPipeline ==
  /\ ~Applied("pipelines")
  /\ Record("pipelines", extractPipelineProps(item))
  /\ UNCHANGED <<item, scanVars, otherVars>>

ExtractReport ==
  /\ ~Applied("reports")
  /\ Record("reports", extractReportProps(item))
  /\ UNCHANGED <<item, scanVars, otherVars>>

ExtractNext ==
  \/ ExtractWorkflow
  \/ ExtractEmail
  \/ ExtractList
  \/ ExtractPipeline
  \/ ExtractReport

SpecExtract == ExtractInit /\ [][ExtractNext]_vars

(***************************************************************************)
(* The form walk applied to one form.                                      *)
(***************************************************************************)
FormInit ==
  /\ item \in FormItems
  /\ names = <<>>
  /\ ScanIdle
  /\ OtherIdle

ExtractForm ==
  /\ ~Applied("forms")
  /\ Record("forms", extractFormProps(item))
  /\ UNCHANGED <<item, scanVars, otherVars>>

FormNext == ExtractForm

SpecForm == FormInit /\ [][FormNext]_vars

(***************************************************************************)
(* toInternalName and parseOptions applied to one string.                  *)
(***************************************************************************)
LabelChars == {"a", "B", "1", "_", " ", "-"}

RECURSIVE StringsUpTo(_, _)
StringsUpTo(chars, n) ==
  IF n = 0 THEN { <<>> }
  ELSE LET shorter == StringsUpTo(chars, n - 1)
       IN shorter \cup { Append(q, c) : q \in { x \in shorter : Len(x) = n - 1 },
                                       c \in chars }

ShortLabels == StringsUpTo(LabelChars, MaxLabel)

Repeat(c, n) == [k \in 1..n |-> c]

\* labels around the length limit, with and without a leading digit
LongLabels ==
  { head \o Repeat("x", n) \o tail :
      head \in { <<>>, <<"1">>, <<" ", "2">>, <<"-">> },
      n \in (NameLimit - 3)..(NameLimit + 1),
      tail \in { <<>>, <<"y">>, <<" ", "Z">> } }

OptionPieces ==
  { <<>>, <<" ">>, <<"A">>, <<" ", "B">>, <<"C", " ">>, <<"1">>, <<"-">>,
    <<"a", " ", "b">> }

RECURSIVE Joined(_)
Joined(n) ==
  IF n = 1 THEN OptionPieces
  ELSE { q \o <<";">> \o piece : q \in Joined(n - 1), piece \in OptionPieces }

\* "A;B;;  C ;"
OptionsExample == <<"A", ";", "B", ";", ";", " ", " ", "C", " ", ";">>

OptionStrings == UNION { Joined(n) : n \in 1..MaxPieces } \cup {OptionsExample}

Computed(f) == f \in DOMAIN out

TextInit ==
  /\ label \in ShortLabels \cup LongLabels \cup OptionStrings
  /\ out = <<>>
  /\ ExtractIdle /\ ScanIdle /\ HandlerIdle /\ AppIdle /\ UiIdle

ToInternalName ==
  /\ ~Computed("toInternalName")
  /\ out' = ("toInternalName" :> toInternalName(label)) @@ out
  /\ UNCHANGED <<label, extractVars, scanVars, handlerVars, appVars, uiVars>>

ParseOptions ==
  /\ ~Computed("parseOptions")
  /\ out' = ("parseOptions" :> parseOptions(label)) @@ out
  /\ UNCHANGED <<label, extractVars, scanVars, handlerVars, appVars, uiVars>>

TextNext == ToInternalName \/ ParseOptions

SpecText == TextInit /\ [][TextNext]_vars

(***************************************************************************)
(* POST /api/create-property: one request.                                 *)
(***************************************************************************)
PropertyGroup(name, owned) ==
  JObj(<<Entry(W_NAME_KEY, JStr(name))>>
       \o (IF owned = "platform" THEN <<Entry(W_HUBSPOTDEFINED, JBool(TRUE))>>
           ELSE IF owned = "account" THEN <<Entry(W_HUBSPOTDEFINED, JBool(FALSE))>>
           ELSE <<>>))

Listing(groups) == JObj(<<Entry(W_RESULTS, JArr(groups))>>)

\* what the CRM can answer to the group listing request; JNull: it fails
GroupListings ==
  { JNull,
    JObj(<<>>),
    Listing(<<>>),
    Listing(<<PropertyGroup(W_G_HUBSPOT, "platform")>>),
    Listing(<<PropertyGroup(W_G_HUBSPOT, "platform"), PropertyGroup(W_G_OTHER, "platform")>>),
    Listing(<<PropertyGroup(W_G_HUBSPOT, "platform"), PropertyGroup(W_G_OWN, "account"),
              PropertyGroup(W_G_OTHER, "account")>>),
    Listing(<<PropertyGroup(W_G_OTHER, "unmarked"), PropertyGroup(W_G_HUBSPOT, "platform")>>) }

Row(name, type, options) ==
  JObj(<<Entry(W_NAME_COL, JStr(name)), Entry(W_TYPE_COL, JStr(type)),
         Entry(W_DESCRIPTION_COL, JStr(<<>>)), Entry(W_OPTIONS_COL, JStr(options))>>)

Row_DealSize == Row(W_DEAL_SIZE, W_T_NUMBER, <<>>)
Row_Color == Row(W_COLOR, W_T_DROPDOWN, W_RED_BLUE)
Row_FirstCall == Row(W_1ST, W_T_CHECKBOX, <<>>)

\* rows that passed the validation of the CSV, and one that did not
ValidRows == {Row_DealSize, Row_Color}
Rows == ValidRows \cup {Row_FirstCall}

ObjectTypes == {W_CONTACTS, W_DEALS, W_CUSTOM_TYPE, W_CONSTRUCTOR}

Optional(key, vals) == {<<>>} \cup { <<Entry(key, val)>> : val \in vals }

RequestBodies ==
  { JObj(t \o o \o p \o g) :
      t \in Optional(W_TOKEN, {JStr(W_TOK)}),
      o \in Optional(W_OBJECTTYPE, { JStr(x) : x \in ObjectTypes }),
      p \in Optional(W_PROPERTY, Rows),
      g \in Optional(W_DEFAULTGROUP, {JStr(<<>>), JStr(W_G_CALLER)}) }

\* errors of the create request: refused with a message, refused with a
\* list of errors, not answered
Conflict ==
  JObj(<<Entry(W_RESPONSE,
               JObj(<<Entry(W_STATUS, JNum(409)),
                      Entry(W_DATA, JObj(<<Entry(W_MESSAGE, JStr(W_EXISTS))>>))>>)),
         Entry(W_MESSAGE, JStr(W_STATUS409))>>)
Invalid ==
  JObj(<<Entry(W_RESPONSE,
               JObj(<<Entry(W_STATUS, JNum(400)),
                      Entry(W_DATA,
                            JObj(<<Entry(W_ERRORS,
                                         JArr(<<JObj(<<Entry(W_MESSAGE, JStr(W_INVALID))>>)>>))>>))>>)),
         Entry(W_MESSAGE, JStr(W_STATUS400))>>)
CreateErrors == {Conflict, Invalid, TransportError}

EndpointInit ==
  /\ req \in RequestBodies
  /\ hpc = "received"
  /\ groupName = Undefined
  /\ reply = NoReply
  /\ crmLog = <<>>
  /\ listing \in GroupListings
  /\ ExtractIdle /\ ScanIdle /\ TextIdle /\ AppIdle /\ UiIdle

\* groupName is known: build the body and send the create request
SendCreate(group) ==
  /\ groupName' = group
  /\ crmLog' = Append(crmLog,
                      Call("create", Get(req, W_OBJECTTYPE).v,
                           CreateBody(Get(req, W_PROPERTY), TypeOf(Get(req, W_PROPERTY)),
                                      group)))
  /\ hpc' = "create"
  /\ UNCHANGED reply

\* the handler up to its first await
HandleCreate ==
  /\ hpc = "received"
  /\ LET property == Get(req, W_PROPERTY)
         defaultGroup == Get(req, W_DEFAULTGROUP)
     IN IF \/ ~Truthy(Get(req, W_TOKEN))
           \/ ~Truthy(Get(req, W_OBJECTTYPE))
           \/ ~Truthy(property)
        THEN /\ reply' = Failure(BadRequest, JStr(W_MISSING_FIELDS))
             /\ hpc' = "replied"
             /\ UNCHANGED <<groupName, crmLog>>
        ELSE IF ~Truthy(TypeOf(property))
        THEN /\ reply' = Failure(BadRequest,
                                 JStr(W_UNKNOWN_TYPE \o ToText(Get(property, W_TYPE_COL))))
             /\ hpc' = "replied"
             /\ UNCHANGED <<groupName, crmLog>>
        ELSE IF Truthy(defaultGroup)
        THEN SendCreate(defaultGroup)
        ELSE IF Truthy(Member(DEFAULT_GROUPS, Get(req, W_OBJECTTYPE).v))
        THEN SendCreate(Member(DEFAULT_GROUPS, Get(req, W_OBJECTTYPE).v))
        ELSE /\ crmLog' = Append(crmLog, Call("groups", Get(req, W_OBJECTTYPE).v, JNull))
             /\ hpc' = "groups"
             /\ UNCHANGED <<groupName, reply>>
  /\ UNCHANGED <<req, listing, extractVars, scanVars, textVars, appVars, uiVars>>

\* resolveGroupName: the group listing is answered
GroupsOk ==
  /\ hpc = "groups"
  /\ listing # JNull
  /\ SendCreate(GroupFromListing(Get(req, W_OBJECTTYPE), listing))
  /\ UNCHANGED <<req, listing, extractVars, scanVars, textVars, appVars, uiVars>>

\* resolveGroupName: the group listing request fails
GroupsFail ==
  /\ hpc = "groups"
  /\ listing = JNull
  /\ SendCreate(GuessedGroup(Get(req, W_OBJECTTYPE)))
  /\ UNCHANGED <<req, listing, extractVars, scanVars, textVars, appVars, uiVars>>

\* the CRM creates the property and answers with it
CreateOk ==
  /\ hpc = "create"
  /\ LET body == crmLog[Len(crmLog)].body
     IN reply' = Reply(Ok, JObj(Sendable(<<Entry(W_SUCCESS, JBool(TRUE)),
                                           Entry(W_INTERNALNAME, Get(body, W_NAME_KEY)),
                                           Entry(W_LABEL, Get(body, W_LABEL))>>)))
  /\ hpc' = "replied"
  /\ UNCHANGED <<req, groupName, crmLog, listing, extractVars, scanVars, textVars, appVars, uiVars>>

\* the create request fails
CreateFail ==
  /\ hpc = "create"
  /\ \E err \in CreateErrors :
       reply' = Failure(CreateErrorStatus(err), CreateErrorMessage(err))
  /\ hpc' = "replied"
  /\ UNCHANGED <<req, groupName, crmLog, listing, extractVars, scanVars, textVars, appVars, uiVars>>

EndpointNext == HandleCreate \/ GroupsOk \/ GroupsFail \/ CreateOk \/ CreateFail

SpecEndpoint == EndpointInit /\ [][EndpointNext]_vars

(***************************************************************************)
(* createProperties: one bulk-creation batch, against the endpoint above.  *)
(***************************************************************************)
RECURSIVE SeqsUpTo(_, _)
SeqsUpTo(S, n) ==
  IF n = 0 THEN { <<>> }
  ELSE LET shorter == SeqsUpTo(S, n - 1)
       IN shorter \cup { Append(q, x) : q \in { y \in shorter : Len(y) = n - 1 },
                                       x \in S }

\* the object types the select offers: a standard one and a custom one
SelectableTypes == {W_CONTACTS, W_CUSTOM_TYPE}

\* what the CRM answers to the group listing during this batch
BatchListings ==
  { JNull,
    Listing(<<PropertyGroup(W_G_HUBSPOT, "platform"), PropertyGroup(W_G_OWN, "account")>>) }

\* parsedRows[i], i counting from 0
RowAt_Reversed(rows, i) == rows[Len(rows) - i]
RowAt(rows, i) == rows[i + 1]

\* data.success
Created_Always(data) == TRUE
Created(data) == Truthy(Get(data, W_SUCCESS))

\* the body createProperties posts for a row
CreateRequest(type, row) ==
  JObj(<<Entry(W_TOKEN, JStr(W_TOK)), Entry(W_OBJECTTYPE, JStr(type)),
         Entry(W_PROPERTY, row)>>)

CreateInit ==
  /\ parsedRows \in SeqsUpTo(ValidRows, MaxRows)
  /\ objectType \in SelectableTypes
  /\ listing \in BatchListings
  /\ fpc = "ready"
  /\ successCount = 0 /\ failCount = 0
  /\ loopI = 0 /\ sent = <<>> /\ inFlight = {} /\ outcomes = <<>> /\ slept = <<>>
  /\ ManageIdle
  /\ req = JNull /\ hpc = "idle" /\ groupName = Undefined /\ reply = NoReply
  /\ crmLog = <<>>
  /\ ExtractIdle /\ ScanIdle /\ TextIdle /\ UiIdle

\* the click on the create button, up to the loop
CreateStart ==
  /\ fpc = "ready"
  /\ fpc' = IF parsedRows = <<>> THEN "returned" ELSE "send"
  /\ successCount' = 0
  /\ failCount' = 0
  /\ loopI' = 0
  /\ UNCHANGED <<parsedRows, objectType, manageVars, sent, inFlight, outcomes, slept,
                 handlerVars, extractVars, scanVars, textVars, uiVars>>

\* the loop body up to the await: the request for row i goes out
SendRow ==
  /\ fpc = "send"
  /\ loopI < Len(parsedRows)
  /\ req' = CreateRequest(objectType, RowAt(parsedRows, loopI))
  /\ hpc' = "received"
  /\ groupName' = Undefined
  /\ reply' = NoReply
  /\ sent' = Append(sent, RowAt(parsedRows, loopI))
  /\ inFlight' = inFlight \cup {loopI}
  /\ fpc' = "await"
  /\ UNCHANGED <<crmLog, listing, objectType, createVars, manageVars,
                 loopI, outcomes, slept, extractVars, scanVars, textVars, uiVars>>

\* the loop goes on with the next row, or ends
AfterRow ==
  /\ inFlight' = inFlight \ {loopI}
  /\ loopI' = loopI + 1
  /\ fpc' = IF loopI + 1 < Len(parsedRows) THEN "send" ELSE "done"
  /\ hpc' = "idle"
  /\ UNCHANGED <<req, groupName, reply, crmLog, listing, parsedRows, objectType,
                 manageVars, sent, slept, extractVars, scanVars, textVars, uiVars>>

\* the answer of the endpoint arrives
ReceiveReply ==
  /\ fpc = "await"
  /\ hpc = "replied"
  /\ IF Created(reply.body)
     THEN successCount' = successCount + 1 /\ UNCHANGED failCount
     ELSE failCount' = failCount + 1 /\ UNCHANGED successCount
  /\ outcomes' = Append(outcomes, reply)
  /\ AfterRow

\* fetch rejects: the request or its answer is lost
NetworkFail ==
  /\ fpc = "await"
  /\ hpc \in {"received", "replied"}
  /\ failCount' = failCount + 1
  /\ UNCHANGED successCount
  /\ outcomes' = Append(outcomes, NoReply)
  /\ AfterRow

CreateNext ==
  \/ CreateStart \/ SendRow \/ ReceiveReply \/ NetworkFail
  \/ HandleCreate \/ GroupsOk \/ GroupsFail \/ CreateOk \/ CreateFail

SpecCreate == CreateInit /\ [][CreateNext]_vars

(***************************************************************************)
(* The property list of the manage tab: analyzeUsage and confirmDelete.    *)
(***************************************************************************)
Property(name, hubspotDefined) ==
  JObj(<<Entry(W_NAME_KEY, JStr(name)), Entry(W_HUBSPOTDEFINED, JBool(hubspotDefined))>>)

\* the properties the CRM lists for the object type: three custom ones and
\* one of the platform
Listable ==
  { Property(W_LEAD, FALSE), Property(W_FAV, FALSE), Property(W_AMOUNT, FALSE),
    Property(W_EMAIL, TRUE) }

\* allProperties after loadProperties: the names are distinct
PropertyLists == { q \in SeqsUpTo(Listable, MaxProps) : NoRepeat(q) }

NameIn(prop) == Get(prop, W_NAME_KEY).v
NamesOf(propList) == [k \in 1..Len(propList) |-> NameIn(propList[k])]

\* allProperties.filter(p => !p.hubspotDefined)
CustomOnly(propList) ==
  LET IsCustom(prop) == ~Truthy(Get(prop, W_HUBSPOTDEFINED))
  IN SelectSeq(propList, IsCustom)

\* allProperties.filter(p => p.name !== propName)
Without_Nothing(propList, propName) == propList
Without(propList, propName) ==
  LET Other(prop) == NameIn(prop) # propName
  IN SelectSeq(propList, Other)

SleepMs == 120

\* i < total - 1
PauseAfter_Always(k, total) == TRUE
PauseAfter(k, total) == k < total - 1

\* the answers of POST /api/check-property-records
Counted(n) == JObj(<<Entry(W_SUCCESS, JBool(TRUE)), Entry(W_TOTAL, JNum(n))>>)
Refused == JObj(<<Entry(W_SUCCESS, JBool(FALSE)), Entry(W_ERROR, JStr(W_UNAUTHORIZED))>>)
CheckReplies == {Counted(0), Counted(5), Refused}

\* data.success ? data.total : 'error'
RecordsCell(data) == IF Truthy(Get(data, W_SUCCESS)) THEN Get(data, W_TOTAL) ELSE JStr(W_ERROR)

AnalyzeInit ==
  /\ allProperties \in PropertyLists
  /\ objectType \in SelectableTypes
  /\ customProps = <<>> /\ pendingDelete = <<>> /\ queue = <<>>
  /\ deleted = 0 /\ deleteFailed = 0
  /\ fpc = "ready"
  /\ loopI = 0 /\ sent = <<>> /\ inFlight = {} /\ outcomes = <<>> /\ slept = <<>>
  /\ CreateIdle
  /\ ExtractIdle /\ ScanIdle /\ TextIdle /\ HandlerIdle /\ UiIdle

\* analyzeUsage up to the fetch of the usage context
AnalyzeStart ==
  /\ fpc = "ready"
  /\ fpc' = IF allProperties = <<>> THEN "returned" ELSE "context"
  /\ UNCHANGED <<objectType, createVars, manageVars, loopI, sent, inFlight, outcomes,
                 slept, handlerVars, extractVars, scanVars, textVars, uiVars>>

\* the usage context arrives: the custom properties are picked
ContextOk ==
  /\ fpc = "context"
  /\ customProps' = CustomOnly(allProperties)
  /\ loopI' = 0
  /\ fpc' = IF CustomOnly(allProperties) = <<>> THEN "done" ELSE "send"
  /\ UNCHANGED <<objectType, createVars, allProperties, pendingDelete, queue, deleted,
                 deleteFailed, sent, inFlight, outcomes, slept,
                 handlerVars, extractVars, scanVars, textVars, uiVars>>

\* the fetch of the usage context rejects
ContextFail ==
  /\ fpc = "context"
  /\ fpc' = "returned"
  /\ UNCHANGED <<objectType, createVars, manageVars, loopI, sent, inFlight, outcomes,
                 slept, handlerVars, extractVars, scanVars, textVars, uiVars>>

\* the loop body up to the await: the record check of property i goes out
SendCheck ==
  /\ fpc = "send"
  /\ loopI < Len(customProps)
  /\ sent' = Append(sent, NameIn(RowAt(customProps, loopI)))
  /\ inFlight' = inFlight \cup {loopI}
  /\ fpc' = "await"
  /\ UNCHANGED <<objectType, createVars, manageVars, loopI, outcomes, slept,
                 handlerVars, extractVars, scanVars, textVars, uiVars>>

\* the record check settles with `cell` for the records column
CheckSettles(cell) ==
  /\ outcomes' = Append(outcomes, cell)
  /\ inFlight' = inFlight \ {loopI}
  /\ IF PauseAfter(loopI, Len(customProps))
     THEN fpc' = "sleep" /\ UNCHANGED loopI
     ELSE /\ loopI' = loopI + 1
          /\ fpc' = IF loopI + 1 < Len(customProps) THEN "send" ELSE "done"
  /\ UNCHANGED <<objectType, createVars, manageVars, sent, slept,
                 handlerVars, extractVars, scanVars, textVars, uiVars>>

CheckAnswered ==
  /\ fpc = "await"
  /\ \E data \in CheckReplies : CheckSettles(RecordsCell(data))

\* fetch or res.json() rejects
CheckLost ==
  /\ fpc = "await"
  /\ CheckSettles(JStr(W_ERROR))

\* await sleep(120) is over
Slept ==
  /\ fpc = "sleep"
  /\ slept' = Append(slept, SleepMs)
  /\ loopI' = loopI + 1
  /\ fpc' = IF loopI + 1 < Len(customProps) THEN "send" ELSE "done"
  /\ UNCHANGED <<objectType, createVars, manageVars, sent, inFlight, outcomes,
                 handlerVars, extractVars, scanVars, textVars, uiVars>>

AnalyzeNext ==
  \/ AnalyzeStart \/ ContextOk \/ ContextFail
  \/ SendCheck \/ CheckAnswered \/ CheckLost \/ Slept

SpecAnalyze == AnalyzeInit /\ [][AnalyzeNext]_vars

\* the names checked for deletion, or the one of a row's delete button
Queues(propList) ==
  { q \in SeqsUpTo(Range(NamesOf(propList)), Len(propList)) : q # <<>> /\ NoRepeat(q) }

\* the answers of DELETE /api/delete-property
DeleteReplies == {JObj(<<Entry(W_SUCCESS, JBool(TRUE))>>), Refused}

\* the properties the platform defines
HubspotDefinedNames == { NameIn(p) : p \in { q \in Listable : Truthy(Get(q, W_HUBSPOTDEFINED)) } }

\* what the endpoint may answer for a property: the CRM refuses to delete
\* the ones it defines itself
DeleteRepliesOf_AnySucceeds(propName) == DeleteReplies
DeleteRepliesOf(propName) ==
  IF propName \in HubspotDefinedNames THEN {Refused} ELSE DeleteReplies

DeleteInit ==
  /\ allProperties \in PropertyLists
  /\ pendingDelete \in Queues(allProperties)
  /\ objectType \in {W_CONTACTS}
  /\ customProps = <<>> /\ queue = <<>>
  /\ deleted = 0 /\ deleteFailed = 0
  /\ fpc = "ready"
  /\ loopI = 0 /\ sent = <<>> /\ inFlight = {} /\ outcomes = <<>> /\ slept = <<>>
  /\ CreateIdle
  /\ ExtractIdle /\ ScanIdle /\ TextIdle /\ HandlerIdle /\ UiIdle

\* confirmDelete up to the loop
ConfirmDelete ==
  /\ fpc = "ready"
  /\ queue' = pendingDelete
  /\ pendingDelete' = <<>>
  /\ deleted' = 0
  /\ deleteFailed' = 0
  /\ loopI' = 0
  /\ fpc' = IF pendingDelete = <<>> THEN "done" ELSE "send"
  /\ UNCHANGED <<objectType, createVars, allProperties, customProps, sent, inFlight,
                 outcomes, slept, handlerVars, extractVars, scanVars, textVars, uiVars>>

\* the loop body up to the await: the delete request of names[i] goes out
SendDelete ==
  /\ fpc = "send"
  /\ loopI < Len(queue)
  /\ sent' = Append(sent, RowAt(queue, loopI))
  /\ inFlight' = inFlight \cup {loopI}
  /\ fpc' = "await"
  /\ UNCHANGED <<objectType, createVars, manageVars, loopI, outcomes, slept,
                 handlerVars, extractVars, scanVars, textVars, uiVars>>

\* the loop goes on with the next name, or ends
AfterDelete ==
  /\ inFlight' = inFlight \ {loopI}
  /\ loopI' = loopI + 1
  /\ fpc' = IF loopI + 1 < Len(queue) THEN "send" ELSE "done"
  /\ UNCHANGED <<objectType, createVars, customProps, pendingDelete, queue, sent, slept,
                 handlerVars, extractVars, scanVars, textVars, uiVars>>

\* the answer of the delete endpoint arrives
DeleteAnswered ==
  /\ fpc = "await"
  /\ \E data \in DeleteRepliesOf(RowAt(queue, loopI)) :
       /\ IF Created(data)
          THEN /\ deleted' = deleted + 1
               /\ allProperties' = Without(allProperties, RowAt(queue, loopI))
               /\ UNCHANGED deleteFailed
          ELSE /\ deleteFailed' = deleteFailed + 1
               /\ UNCHANGED <<deleted, allProperties>>
       /\ outcomes' = Append(outcomes, data)
  /\ AfterDelete

\* fetch or res.json() rejects
DeleteLost ==
  /\ fpc = "await"
  /\ deleteFailed' = deleteFailed + 1
  /\ UNCHANGED <<deleted, allProperties>>
  /\ outcomes' = Append(outcomes, JNull)
  /\ AfterDelete

DeleteNext == ConfirmDelete \/ SendDelete \/ DeleteAnswered \/ DeleteLost

SpecDelete == DeleteInit /\ [][DeleteNext]_vars

(***************************************************************************)
(* The create tab: createProperties while files are dropped and cleared.   *)
(***************************************************************************)
MaxFileRows == 2

\* data.data of a successful /api/parse-csv: at least one row
Files == { q \in SeqsUpTo(ValidRows, MaxFileRows) : q # <<>> }

\* updateCreateBtn: the value it gives btn.disabled
updateCreateBtn_RowsOnly(rows, creating) == Len(rows) = 0
updateCreateBtn(rows, creating) == Len(rows) = 0 \/ creating

\* the answers of POST /api/create-property
BatchReplies == {JObj(<<Entry(W_SUCCESS, JBool(TRUE))>>), Refused}

BatchInit ==
  /\ parsedRows = <<>>
  /\ objectType \in {W_CONTACTS}
  /\ successCount = 0 /\ failCount = 0
  /\ fpc = "ready"
  /\ loopI = 0 /\ sent = <<>> /\ inFlight = {} /\ outcomes = <<>> /\ slept = <<>>
  /\ isCreating = FALSE
  /\ createBtnDisabled \in BOOLEAN
  /\ batchTotal = 0 /\ batchRows = <<>> /\ batches = 0
  /\ upload = NoUpload
  /\ ManageIdle /\ HandlerIdle /\ PanelIdle
  /\ ExtractIdle /\ ScanIdle /\ TextIdle

\* the for loop from the test of i = k up to the next await, or to the end
\* of createProperties
Iterate(k) ==
  /\ loopI' = k
  /\ IF k >= batchTotal'
     THEN \* the loop is over: the summary, then the lock is released
          /\ fpc' = "done"
          /\ isCreating' = FALSE
          /\ createBtnDisabled' = FALSE
          /\ batches' = batches - 1
          /\ UNCHANGED <<sent, inFlight>>
     ELSE IF k < Len(parsedRows)
     THEN \* row = parsedRows[k] goes out
          /\ sent' = Append(sent, RowAt(parsedRows, k))
          /\ inFlight' = {k}
          /\ fpc' = "await"
          /\ UNCHANGED <<isCreating, createBtnDisabled, batches>>
     ELSE \* row is undefined: row.Name throws and createProperties is left
          /\ fpc' = "thrown"
          /\ inFlight' = {}
          /\ batches' = batches - 1
          /\ UNCHANGED <<sent, isCreating, createBtnDisabled>>

\* the click on the create button: createProperties up to its first await
CreateClick ==
  /\ ~createBtnDisabled
  /\ IF parsedRows = <<>>
     THEN UNCHANGED <<createVars, loopVars, uiVars>>
     ELSE IF fpc \in {"ready", "done", "thrown"}
     THEN /\ successCount' = 0
          /\ failCount' = 0
          /\ batchTotal' = Len(parsedRows)
          /\ batchRows' = parsedRows
          /\ isCreating' = TRUE
          /\ createBtnDisabled' = updateCreateBtn(parsedRows, TRUE)
          /\ batches' = batches + 1
          /\ loopI' = 0
          /\ sent' = <<RowAt(parsedRows, 0)>>
          /\ inFlight' = {0}
          /\ fpc' = "await"
          /\ UNCHANGED <<parsedRows, outcomes, slept, upload>>
     ELSE \* a call beside the running one: only its lock is followed
          /\ isCreating' = TRUE
          /\ createBtnDisabled' = updateCreateBtn(parsedRows, TRUE)
          /\ batches' = batches + 1
          /\ UNCHANGED <<createVars, loopVars, batchTotal, batchRows, upload>>
  /\ UNCHANGED <<objectType, manageVars, handlerVars, extractVars, scanVars, textVars, panelVars>>

\* the request of row i settles, and the loop goes on
BatchSettles(created) ==
  /\ fpc = "await"
  /\ IF created
     THEN successCount' = successCount + 1 /\ UNCHANGED failCount
     ELSE failCount' = failCount + 1 /\ UNCHANGED successCount
  /\ UNCHANGED <<batchTotal, batchRows>>
  /\ Iterate(loopI + 1)
  /\ UNCHANGED <<parsedRows, objectType, outcomes, slept, upload, manageVars,
                 handlerVars, extractVars, scanVars, textVars, panelVars>>

\* the answer of the endpoint arrives
BatchAnswered == \E data \in BatchReplies : BatchSettles(Created(data))

\* fetch or res.json() rejects
BatchLost == BatchSettles(FALSE)

\* a file is dropped or picked: processFile up to the await of /api/parse-csv
ProcessFile ==
  /\ upload = NoUpload
  /\ \E file \in Files : upload' = {file}
  /\ UNCHANGED <<isCreating, createBtnDisabled, batchTotal, batchRows, batches,
                 appVars, handlerVars, extractVars, scanVars, textVars, panelVars>>

\* processFile: the rows arrive
FileParsed ==
  /\ upload # NoUpload
  /\ \E file \in upload :
       /\ parsedRows' = file
       /\ createBtnDisabled' = updateCreateBtn(file, isCreating)
  /\ upload' = NoUpload
  /\ UNCHANGED <<isCreating, batchTotal, batchRows, batches, successCount, failCount,
                 objectType, manageVars, loopVars, handlerVars, extractVars, scanVars,
                 textVars, panelVars>>

\* processFile: the file is refused, or the request is lost
FileRejected ==
  /\ upload # NoUpload
  /\ upload' = NoUpload
  /\ UNCHANGED <<isCreating, createBtnDisabled, batchTotal, batchRows, batches,
                 appVars, handlerVars, extractVars, scanVars, textVars, panelVars>>

\* the click on the remove-file button
ClearFile ==
  /\ parsedRows' = <<>>
  /\ createBtnDisabled' = updateCreateBtn(<<>>, isCreating)
  /\ UNCHANGED <<isCreating, batchTotal, batchRows, batches, upload, successCount,
                 failCount, objectType, manageVars, loopVars, handlerVars, extractVars,
                 scanVars, textVars, panelVars>>

BatchNext ==
  \/ CreateClick \/ BatchAnswered \/ BatchLost
  \/ ProcessFile \/ FileParsed \/ FileRejected \/ ClearFile

SpecBatch == BatchInit /\ [][BatchNext]_vars

(***************************************************************************)
(* The manage tab: loadProperties, analyzeUsage, the usage filter and      *)
(* selectUnused, as the user may interleave them.                          *)
(***************************************************************************)
MaxRuns == 2
MaxLoads == 2

\* the columns of a row: the six source kinds and the record count
CellKinds == Kinds \cup {"records"}

W_LOADING == <<"l","o","a","d","i","n","g">>

\* the placeholders loadProperties annotates a property with
NotChecked == [k \in CellKinds |-> JNull]

\* data.properties of /api/list-properties, for each object type
Listings(type) ==
  IF type = W_CONTACTS
  THEN <<Property(W_LEAD, FALSE), Property(W_EMAIL, TRUE)>>
  ELSE <<Property(W_LEAD, FALSE), Property(W_FAV, FALSE)>>

\* the answers of /api/fetch-usage-context: every source fetched, and the
\* forms source failed
ScanAnswer(forms, ws) ==
  [props |-> [k \in Kinds |-> IF k = "workflows" THEN {W_LEAD}
                              ELSE IF k = "forms" THEN forms ELSE {}],
   warnings |-> ws]

ScanAnswers ==
  { ScanAnswer({W_FAV}, <<>>), ScanAnswer({}, <<Warning("forms", HttpError)>>) }

\* Number(value)
Number_NullOnly(v) == IF v = JNull THEN <<0>> ELSE <<>>
Number(v) ==
  IF v.t = "num" THEN <<v.v>>
  ELSE IF v = JNull THEN <<0>>
  ELSE <<>>  \* NaN: 'loading' and 'error'

\* !p.hubspotDefined
NotHubspotDefined(prop) == ~Truthy(Get(prop, W_HUBSPOTDEFINED))

\* updateUsageCell: the entry of allProperties named propName, if there is one
updateUsageCell(propList, cs, propName, kind, value) ==
  IF propName \in Range(NamesOf(propList))
  THEN [cs EXCEPT ![propName][kind] = value]
  ELSE cs

\* visibleProperties, with an empty search box and every source shown
visibleProperties(propList, cs, filter, started) ==
  LET Shown(p) ==
        LET c == cs[NameIn(p)]
        IN IF filter = "unused"
           THEN IF ~started THEN NotHubspotDefined(p)
                ELSE /\ NotHubspotDefined(p)
                     /\ c["records"] = JNull \/ Number(c["records"]) = <<0>>
                     /\ \A k \in Kinds : c[k] = JBool(FALSE) \/ c[k] = JNull
           ELSE IF filter = "used"
           THEN \/ Number(c["records"]) # <<>> /\ Number(c["records"])[1] > 0
                \/ \E k \in Kinds : c[k] = JBool(TRUE)
           ELSE TRUE
  IN SelectSeq(propList, Shown)

\* selectUnused: the names whose checkbox it checks
selectUnused(propList, cs, filter, started, rendered) ==
  { NameIn(p) : p \in
      { q \in Range(visibleProperties(propList, cs, filter, started)) :
          /\ NotHubspotDefined(q)
          /\ cs[NameIn(q)]["records"] = JNull \/ Number(cs[NameIn(q)]["records"]) = <<0>>
          /\ \A k \in Kinds : cs[NameIn(q)][k] # JBool(TRUE)
          /\ NameIn(q) \in rendered } }

\* analyzeUsage: the properties counted in unusedCount
unusedCount(propList, cs) ==
  { NameIn(p) : p \in
      { q \in Range(propList) :
          /\ NotHubspotDefined(q)
          /\ Number(cs[NameIn(q)]["records"]) = <<0>>
          /\ \A k \in Kinds : cs[NameIn(q)][k] = JBool(FALSE) } }

\* what lies outside the manage tab
outsidePanel ==
  <<lockVars, createVars, loopVars, handlerVars, extractVars, scanVars, textVars,
    customProps, pendingDelete, queue, deleted, deleteFailed>>

ManageInit ==
  /\ objectType \in SelectableTypes
  /\ ManageIdle /\ PanelIdle /\ LockIdle /\ CreateIdle
  /\ fpc = "idle"
  /\ loopI = 0 /\ sent = <<>> /\ inFlight = {} /\ outcomes = <<>> /\ slept = <<>>
  /\ HandlerIdle /\ ExtractIdle /\ ScanIdle /\ TextIdle

\* the object type select changes
OnObjectTypeChange ==
  /\ \E type \in SelectableTypes \ {objectType} : objectType' = type
  /\ allProperties' = <<>>
  /\ cells' = <<>>
  /\ analysisStarted' = FALSE
  /\ analyzeBtnDisabled' = TRUE
  /\ UNCHANGED <<runs, loadPending, generation, filterUsage, tableRows, selection,
                 outsidePanel>>

\* the click on the load button: loadProperties up to its await
LoadClick ==
  /\ loadPending = {}
  /\ generation < MaxLoads
  /\ allProperties' = <<>>
  /\ cells' = <<>>
  /\ analysisStarted' = FALSE
  /\ analyzeBtnDisabled' = TRUE
  /\ loadPending' = {objectType}
  /\ UNCHANGED <<objectType, runs, generation, filterUsage, tableRows, selection,
                 outsidePanel>>

\* renderPropertiesTable(visibleProperties())
Rendered(propList, cs, filter, started) ==
  Range(NamesOf(visibleProperties(propList, cs, filter, started)))

\* loadProperties: the list arrives
LoadDone ==
  /\ loadPending # {}
  /\ \E type \in loadPending :
       /\ allProperties' = Listings(type)
       /\ cells' = [n \in Range(NamesOf(Listings(type))) |-> NotChecked]
  /\ tableRows' = Rendered(allProperties', cells', filterUsage, analysisStarted)
  /\ selection' = {}
  /\ analyzeBtnDisabled' = FALSE
  /\ generation' = generation + 1
  /\ loadPending' = {}
  /\ UNCHANGED <<objectType, analysisStarted, runs, filterUsage, outsidePanel>>

\* loadProperties: the listing is refused, or the request is lost
LoadFail ==
  /\ loadPending # {}
  /\ loadPending' = {}
  /\ UNCHANGED <<objectType, allProperties, cells, analysisStarted, analyzeBtnDisabled,
                 runs, generation, filterUsage, tableRows, selection, outsidePanel>>

\* the click on the analyze button: analyzeUsage up to its first await
AnalyzeClick ==
  /\ ~analyzeBtnDisabled
  /\ Len(runs) < MaxRuns
  /\ IF allProperties = <<>>
     THEN UNCHANGED <<analysisStarted, analyzeBtnDisabled, runs>>
     ELSE /\ analysisStarted' = TRUE
          /\ analyzeBtnDisabled' = TRUE
          /\ runs' = Append(runs, [at |-> "context", type |-> objectType,
                                   loaded |-> generation, ctx |-> {},
                                   custom |-> <<>>, k |-> 0, found |-> {}])
  /\ UNCHANGED <<objectType, allProperties, cells, loadPending, generation, filterUsage,
                 tableRows, selection, outsidePanel>>

\* analyzeUsage from the last record check to its end: run r is over
Finish(r, run) ==
  /\ runs' = [runs EXCEPT ![r] = [run EXCEPT !.at = "over",
                                             !.found = unusedCount(allProperties, cells')]]
  /\ analyzeBtnDisabled' = FALSE
  /\ tableRows' = Rendered(allProperties, cells', filterUsage, analysisStarted)
  /\ selection' = {}

\* analyzeUsage, steps 2 and 3 up to the first record check
ContextArrives(r) ==
  /\ runs[r].at = "context"
  /\ \E answer \in ScanAnswers :
       LET marked == [n \in DOMAIN cells |->
                        [c \in CellKinds |->
                           IF c \in Kinds THEN JBool(n \in answer.props[c])
                           ELSE cells[n][c]]]
           custom == CustomOnly(allProperties)
           run == [runs[r] EXCEPT !.ctx = {answer}, !.custom = custom]
       IN IF custom = <<>>
          THEN /\ cells' = marked
               /\ Finish(r, run)
          ELSE /\ cells' = updateUsageCell(allProperties, marked, NameIn(custom[1]),
                                           "records", JStr(W_LOADING))
               /\ runs' = [runs EXCEPT ![r] = [run EXCEPT !.at = "check"]]
               /\ UNCHANGED <<analyzeBtnDisabled, tableRows, selection>>
  /\ UNCHANGED <<objectType, allProperties, analysisStarted, loadPending, generation,
                 filterUsage, outsidePanel>>

\* analyzeUsage: the fetch of the usage context rejects
ContextLost(r) ==
  /\ runs[r].at = "context"
  /\ runs' = [runs EXCEPT ![r].at = "over"]
  /\ analyzeBtnDisabled' = FALSE
  /\ UNCHANGED <<objectType, allProperties, cells, analysisStarted, loadPending,
                 generation, filterUsage, tableRows, selection, outsidePanel>>

\* analyzeUsage: the record check of customProps[k] settles with `value`
RecordsSettle(r, value) ==
  /\ runs[r].at = "check"
  /\ cells' = updateUsageCell(allProperties, cells,
                              NameIn(RowAt(runs[r].custom, runs[r].k)), "records", value)
  /\ IF PauseAfter(runs[r].k, Len(runs[r].custom))
     THEN /\ runs' = [runs EXCEPT ![r].at = "sleep"]
          /\ UNCHANGED <<analyzeBtnDisabled, tableRows, selection>>
     ELSE Finish(r, runs[r])
  /\ UNCHANGED <<objectType, allProperties, analysisStarted, loadPending, generation,
                 filterUsage, outsidePanel>>

RecordsAnswered(r) == \E data \in CheckReplies : RecordsSettle(r, RecordsCell(data))

RecordsLost(r) == RecordsSettle(r, JStr(W_ERROR))

\* analyzeUsage: the sleep is over, the next record check goes out
NextCheck(r) ==
  /\ runs[r].at = "sleep"
  /\ cells' = updateUsageCell(allProperties, cells,
                              NameIn(RowAt(runs[r].custom, runs[r].k + 1)), "records",
                              JStr(W_LOADING))
  /\ runs' = [runs EXCEPT ![r].at = "check", ![r].k = runs[r].k + 1]
  /\ UNCHANGED <<objectType, allProperties, analysisStarted, analyzeBtnDisabled,
                 loadPending, generation, filterUsage, tableRows, selection, outsidePanel>>

\* the usage filter changes: filterProperties
ChangeFilter ==
  /\ \E filter \in {"all", "unused", "used"} \ {filterUsage} :
       /\ filterUsage' = filter
       /\ tableRows' = Rendered(allProperties, cells, filter, analysisStarted)
  /\ selection' = {}
  /\ UNCHANGED <<objectType, allProperties, cells, analysisStarted, analyzeBtnDisabled,
                 runs, loadPending, generation, outsidePanel>>

\* the click on the select-unused button
SelectUnused ==
  /\ selection' = selection \cup selectUnused(allProperties, cells, filterUsage,
                                              analysisStarted, tableRows)
  /\ UNCHANGED <<objectType, allProperties, cells, analysisStarted, analyzeBtnDisabled,
                 runs, loadPending, generation, filterUsage, tableRows, outsidePanel>>

ManageNext ==
  \/ OnObjectTypeChange \/ LoadClick \/ LoadDone \/ LoadFail
  \/ AnalyzeClick
  \/ \E r \in 1..Len(runs) :
       \/ ContextArrives(r) \/ ContextLost(r)
       \/ RecordsAnswered(r) \/ RecordsLost(r) \/ NextCheck(r)
  \/ ChangeFilter \/ SelectUnused

SpecManage == ManageInit /\ [][ManageNext]_vars

(***************************************************************************)
(* POST /api/fetch-usage-context: one usage scan.                          *)
(***************************************************************************)
\* the source kind a fetch belongs to
KindOf(stage) == IF stage \in PipelineObjects THEN "pipelines" ELSE stage

\* the fetch that follows the block of a source kind
AfterKind(kind) ==
  CASE kind = "workflows" -> "forms"
    [] kind = "forms" -> "lists"
    [] kind = "lists" -> "deals"
    [] kind = "pipelines" -> "emails"
    [] kind = "emails" -> "reports"

\* the key of the response body that holds the item array
DataKey(kind) ==
  CASE kind = "workflows" -> W_WORKFLOWS
    [] kind = "forms" -> W_RESULTS
    [] kind = "lists" -> W_LISTS
    [] kind = "emails" -> W_RESULTS

\* the extra query parameters of a paginated source
ExtraParams(kind) ==
  IF kind = "lists" THEN <<Entry(W_INCLUDEFILTERS, JBool(TRUE))>> ELSE <<>>

Exchange(params, ok, data) == [params |-> params, ok |-> ok, data |-> data]

\* the trace of a paginateHubSpot call with one more exchange
Traced(kind, e) ==
  [kind |-> kind,
   exchanges |-> (IF trace.kind = kind THEN trace.exchanges ELSE <<>>) \o <<e>>]

PagesAsked(kind) == IF trace.kind = kind THEN Len(trace.exchanges) ELSE 0

RECURSIVE SumLen(_, _)
SumLen(f, ks) ==
  IF ks = {} THEN 0
  ELSE LET k == CHOOSE x \in ks : TRUE IN Len(f[k]) + SumLen(f, ks \ {k})

Min(a, b) == IF a < b THEN a ELSE b

\* the item arrays the CRM can put in the next response for a source: the
\* items that follow the ones served, as many as the bounds leave
Servable(kind) ==
  LET from == Len(served[kind])
      most == Min(Len(Stock(kind)) - from, MaxItems - SumLen(served, Kinds))
  IN { SubSeq(Stock(kind), from + 1, from + n) : n \in 0..most }

\* the same block writing into Sets shared by the six sources
ProcessItems_SharedSets(kind, its) ==
  \E acc \in {Accumulate(kind, its,
                 [props |-> props[kind], details |-> usageDetails, threw |-> FALSE])} :
     /\ count' = [count EXCEPT ![kind] = IF kind = "pipelines" THEN @ + Len(its)
                                         ELSE Len(its)]
     /\ props' = [k \in Kinds |-> props[k] \cup acc.props]
     /\ usageDetails' = acc.details
     /\ warnings' = IF acc.threw THEN Append(warnings, Warning(kind, WalkError))
                    ELSE warnings

\* the try block of a source once its items are fetched: the counter, then
\* the loop over the items; a throw inside the loop ends up in the catch
ProcessItems(kind, its) ==
  \E acc \in {Accumulate(kind, its,
                 [props |-> props[kind], details |-> usageDetails, threw |-> FALSE])} :
     /\ count' = [count EXCEPT ![kind] = IF kind = "pipelines" THEN @ + Len(its)
                                         ELSE Len(its)]
     /\ props' = [props EXCEPT ![kind] = acc.props]
     /\ usageDetails' = acc.details
     /\ warnings' = IF acc.threw THEN Append(warnings, Warning(kind, WalkError))
                    ELSE warnings

Threw(kind, its) ==
  Accumulate(kind, its, [props |-> {}, details |-> <<>>, threw |-> FALSE]).threw

\* res.json({ success: true, ...Properties, propertyUsageDetails, ...Count,
\* warnings }); the arrays made from the Sets are kept as Sets
Respond ==
  response' = [status |-> 200, success |-> TRUE, error |-> <<>>, props |-> props',
               usageDetails |-> usageDetails', count |-> count',
               warnings |-> warnings']

ScanInit ==
  /\ ExtractIdle
  /\ OtherIdle
  /\ token \in {<<>>, W_TOK}
  /\ pc = "start"
  /\ items = <<>>
  /\ after = JNull
  /\ trace = NoTrace
  /\ served = [k \in Kinds |-> <<>>]
  /\ asked = {}
  /\ failed = {}
  /\ warnings = <<>>
  /\ props = [k \in Kinds |-> {}]
  /\ count = [k \in Kinds |-> 0]
  /\ usageDetails = <<>>
  /\ fetched = [k \in Paginated |-> <<>>]
  /\ response = NoResponse
  /\ outage \in Errors

\* if (!token) return res.status(400)...
ScanStart ==
  /\ pc = "start"
  /\ IF token = <<>>
     THEN /\ pc' = "done"
          /\ response' = [NoResponse EXCEPT !.status = 400, !.error = W_TOKEN_REQUIRED]
     ELSE /\ pc' = "workflows"
          /\ UNCHANGED response
  /\ UNCHANGED <<extractVars, otherVars, token, items, after, trace, served, asked, failed,
                 warnings, props, count, usageDetails, fetched, outage>>

\* one round of the do-while of paginateHubSpot that gets a page; with no
\* further cursor the function returns and the caller processes the items
\* (a body without the item array carries no paging section either)
PageOk(kind) ==
  /\ pc = kind
  /\ \E batch \in Servable(kind), hasArray \in BOOLEAN, more \in BOOLEAN :
       /\ ~hasArray => batch = <<>> /\ ~more
       /\ more => PagesAsked(kind) + 1 < MaxPages
       /\ LET params == RequestParams(ExtraParams(kind), after)
              cursor == IF more THEN CursorAfter(PagesAsked(kind) + 1) ELSE JNull
              data == PageBody(DataKey(kind), batch, hasArray, cursor)
              got == PushBatch(items, data, DataKey(kind))
          IN /\ trace' = Traced(kind, Exchange(params, TRUE, data))
             /\ served' = [served EXCEPT ![kind] = @ \o batch]
             /\ IF Truthy(NextCursor(data))
                THEN /\ items' = got
                     /\ after' = NextCursor(data)
                     /\ UNCHANGED <<pc, warnings, props, count, usageDetails, fetched>>
                ELSE /\ items' = <<>>
                     /\ after' = JNull
                     /\ fetched' = [fetched EXCEPT ![kind] = got]
                     /\ ProcessItems(kind, got)
                     /\ pc' = AfterKind(kind)
  /\ asked' = asked \cup {kind}
  /\ UNCHANGED <<extractVars, otherVars, token, failed, response, outage>>

\* a failed page request that leaves the loop but not the function: the
\* items collected so far are returned and processed
PageFail_KeepPartial(kind) ==
  /\ pc = kind
  /\ trace' = Traced(kind, Exchange(RequestParams(ExtraParams(kind), after), FALSE, outage))
  /\ asked' = asked \cup {kind}
  /\ failed' = failed \cup {kind}
  /\ LET acc == Accumulate(kind, items,
                  [props |-> props[kind], details |-> usageDetails, threw |-> FALSE])
     IN /\ count' = [count EXCEPT ![kind] = Len(items)]
        /\ props' = [props EXCEPT ![kind] = acc.props]
        /\ usageDetails' = acc.details
  /\ fetched' = [fetched EXCEPT ![kind] = items]
  /\ warnings' = Append(warnings, Warning(kind, outage))
  /\ items' = <<>>
  /\ after' = JNull
  /\ pc' = AfterKind(kind)
  /\ UNCHANGED <<extractVars, otherVars, token, served, response, outage>>

\* a page request fails: the exception leaves paginateHubSpot and is caught
\* by the block of the source
PageFail(kind) ==
  /\ pc = kind
  /\ trace' = Traced(kind, Exchange(RequestParams(ExtraParams(kind), after), FALSE, outage))
  /\ asked' = asked \cup {kind}
  /\ failed' = failed \cup {kind}
  /\ warnings' = Append(warnings, Warning(kind, outage))
  /\ items' = <<>>
  /\ after' = JNull
  /\ pc' = AfterKind(kind)
  /\ UNCHANGED <<extractVars, otherVars, token, served, props, count, usageDetails, fetched,
                 response, outage>>

\* one round of the loop over ['deals', 'tickets']
PipelinesOk(object) ==
  /\ pc = object
  /\ \E batch \in Servable("pipelines"), hasArray \in BOOLEAN :
       /\ ~hasArray => batch = <<>>
       /\ LET data == PageBody(W_RESULTS, batch, hasArray, JNull)
              pipelines == Or(Get(data, W_RESULTS), JArr(<<>>)).v
          IN /\ served' = [served EXCEPT !["pipelines"] = @ \o batch]
             /\ ProcessItems("pipelines", pipelines)
             /\ pc' = IF object = "deals" /\ ~Threw("pipelines", pipelines)
                      THEN "tickets" ELSE AfterKind("pipelines")
  /\ asked' = asked \cup {object}
  /\ trace' = NoTrace
  /\ UNCHANGED <<extractVars, otherVars, token, items, after, failed, fetched, response, outage>>

\* a failed pipelines request that no catch block stops: the handler ends
\* with an error answer
PipelinesFail_Uncaught(object) ==
  /\ pc = object
  /\ asked' = asked \cup {object}
  /\ failed' = failed \cup {"pipelines"}
  /\ response' = [NoResponse EXCEPT !.status = 500]
  /\ pc' = "done"
  /\ trace' = NoTrace
  /\ UNCHANGED <<extractVars, otherVars, token, items, after, served, warnings, props, count,
                 usageDetails, fetched, outage>>

PipelinesFail(object) ==
  /\ pc = object
  /\ asked' = asked \cup {object}
  /\ failed' = failed \cup {"pipelines"}
  /\ warnings' = Append(warnings, Warning("pipelines", outage))
  /\ pc' = AfterKind("pipelines")
  /\ trace' = NoTrace
  /\ UNCHANGED <<extractVars, otherVars, token, items, after, served, props, count,
                 usageDetails, fetched, response, outage>>

\* the reports block, then the answer
ReportsOk ==
  /\ pc = "reports"
  /\ \E batch \in Servable("reports"), key \in {W_OBJECTS, W_RESULTS}, hasArray \in BOOLEAN :
       /\ ~hasArray => batch = <<>>
       /\ LET data == PageBody(key, batch, hasArray, JNull)
              reports == Or(Get(data, W_OBJECTS), Or(Get(data, W_RESULTS), JArr(<<>>))).v
          IN /\ served' = [served EXCEPT !["reports"] = @ \o batch]
             /\ ProcessItems("reports", reports)
  /\ asked' = asked \cup {"reports"}
  /\ Respond
  /\ pc' = "done"
  /\ trace' = NoTrace
  /\ UNCHANGED <<extractVars, otherVars, token, items, after, failed, fetched, outage>>

ReportsFail ==
  /\ pc = "reports"
  /\ asked' = asked \cup {"reports"}
  /\ failed' = failed \cup {"reports"}
  /\ warnings' = Append(warnings, Warning("reports", outage))
  /\ UNCHANGED <<props, count, usageDetails>>
  /\ Respond
  /\ pc' = "done"
  /\ trace' = NoTrace
  /\ UNCHANGED <<extractVars, otherVars, token, items, after, served, fetched, outage>>

ScanNext ==
  \/ ScanStart
  \/ \E kind \in Paginated : PageOk(kind)
  \/ \E kind \in Paginated : PageFail(kind)
  \/ \E object \in PipelineObjects : PipelinesOk(object)
  \/ \E object \in PipelineObjects : PipelinesFail(object)
  \/ ReportsOk
  \/ ReportsFail

SpecScan == ScanInit /\ [][ScanNext]_vars

(***************************************************************************)
(* What an item contains, read off its tree (not off its serialization).   *)
(***************************************************************************)
\* every <<key, value>> of every object of the item, at any depth
RECURSIVE Pairs(_)
Pairs(val) ==
  CASE val.t = "obj" ->
         UNION { {<<val.v[i].k, val.v[i].v>>} \cup Pairs(val.v[i].v) :
                 i \in 1..Len(val.v) }
    [] val.t = "arr" -> UNION { Pairs(val.v[i]) : i \in 1..Len(val.v) }
    [] OTHER -> {}

\* every text of the item: its keys and its string values, at any depth
RECURSIVE Texts(_)
Texts(val) ==
  CASE val.t = "str" -> {val.v}
    [] val.t = "obj" ->
         UNION { {val.v[i].k} \cup Texts(val.v[i].v) : i \in 1..Len(val.v) }
    [] val.t = "arr" -> UNION { Texts(val.v[i]) : i \in 1..Len(val.v) }
    [] OTHER -> {}

EndsWith(s, suffix) ==
  /\ Len(suffix) <= Len(s)
  /\ SubSeq(s, Len(s) - Len(suffix) + 1, Len(s)) = suffix

\* the key name ends in "Property" or "PropertyName", whatever the casing
EndsInPropertyAnyCase(k) ==
  \/ EndsWith(ToLower(k), W_PROP_L)
  \/ EndsWith(ToLower(k), W_PROP_L \o W_NAME_L)

\* a lowercase letter followed by lowercase letters, digits or underscores
IdentShape(s) ==
  /\ Len(s) >= 1
  /\ s[1] \in Lower
  /\ \A k \in 2..Len(s) : s[k] \in Lower \cup Digit \cup {"_"}

\* one or more lowercase letters, digits or underscores
FieldIdShape(s) ==
  /\ Len(s) >= 1
  /\ \A k \in 1..Len(s) : s[k] \in Lower \cup Digit \cup {"_"}

\* text holds {{<source>.field}} with <source> of lowercase letters/underscores
HoldsPlaceholder(text, field) ==
  \E i \in 1..Len(text), d \in 1..Len(text) :
    /\ i + 3 <= d
    /\ text[i] = "{" /\ text[i + 1] = "{"
    /\ \A k \in (i + 2)..(d - 1) : text[k] \in Lower \cup {"_"}
    /\ text[d] = "."
    /\ d + Len(field) + 2 <= Len(text)
    /\ SubSeq(text, d + 1, d + Len(field)) = field
    /\ text[d + Len(field) + 1] = "}" /\ text[d + Len(field) + 2] = "}"

InPlaceholder(val, field) == \E text \in Texts(val) : HoldsPlaceholder(text, field)

\* field is the complete string value of a key ending in Property/PropertyName
UnderPropertyKey(val, field) ==
  \E p \in Pairs(val) : EndsInPropertyAnyCase(p[1]) /\ p[2] = JStr(field)

StructuralKinds == {"lists", "pipelines", "reports"}
TokenKinds == {"workflows", "emails"}
ScanKinds == StructuralKinds \cup TokenKinds

Item_filterProperty == JObj(<<Entry(W_FILTER \o W_PROP_C, JStr(W_LEAD))>>)
Item_propertyType == JObj(<<Entry(W_PROP_L \o W_TYPE, JStr(W_ENUM))>>)

(***************************************************************************)
(* C4 (as stated): structural key matching extracts the value of EVERY key *)
(* whose name ends in "Property"/"PropertyName" - suffix compared          *)
(* case-insensitively, prefix arbitrary - whenever the value is a string   *)
(* of the identifier shape.                                                *)
(***************************************************************************)
C4_EveryPropertyKeyExtracted ==
  \A k \in ScanKinds :
    Applied(k) =>
      \A p \in Pairs(item) :
        (EndsInPropertyAnyCase(p[1]) /\ p[2].t = "str" /\ IdentShape(p[2].v))
          => p[2].v \in names[k]

(***************************************************************************)
(* C5: structural key matching returns an identifier only if it is the     *)
(* complete string value of a key ending in Property/PropertyName and has  *)
(* the identifier shape; {"filterProperty":"lead_status"} yields           *)
(* {lead_status} and {"propertyType":"ENUMERATION"} yields nothing.        *)
(***************************************************************************)
C5_StructuralOnlyIdentifiers ==
  \A k \in StructuralKinds :
    Applied(k) =>
      /\ \A n \in names[k] : IdentShape(n) /\ UnderPropertyKey(item, n)
      /\ item = Item_filterProperty => names[k] = {W_LEAD}
      /\ item = Item_propertyType => names[k] = {}

C5_Witness ==
  /\ Applied("lists")
  /\ names["lists"] = {W_LEAD}
  /\ \E p \in Pairs(item) : p[1] = W_PROP_L \o W_TYPE /\ p[2] = JStr(W_ENUM)
  /\ \E p \in Pairs(item) : p[1] = W_FILTER \o W_PROP_C

(***************************************************************************)
(* C6 (as stated): token matching extracts <fieldId> from every            *)
(* placeholder whose <fieldId> has the identifier shape, and every         *)
(* identifier contributed by token matching has the identifier shape.      *)
(***************************************************************************)
C6_TokenNamesIdentShape ==
  \A k \in TokenKinds :
    Applied(k) =>
      /\ \A text \in Texts(item) : \A n \in IdentTexts :
           HoldsPlaceholder(text, n) => n \in names[k]
      /\ \A n \in names[k] :
           UnderPropertyKey(item, n) \/ (InPlaceholder(item, n) /\ IdentShape(n))

(***************************************************************************)
(* C6 (amended): token matching extracts <fieldId> from every placeholder  *)
(* whose <fieldId> has the identifier shape, and every identifier          *)
(* contributed by token matching is the <fieldId> of a placeholder and     *)
(* consists of one or more lowercase letters, digits or underscores (it    *)
(* may start with a digit or an underscore).                               *)
(***************************************************************************)
C6_TokenNamesFieldIdShape ==
  \A k \in TokenKinds :
    Applied(k) =>
      /\ \A text \in Texts(item) : \A n \in IdentTexts :
           HoldsPlaceholder(text, n) => n \in names[k]
      /\ \A n \in names[k] :
           UnderPropertyKey(item, n) \/ (InPlaceholder(item, n) /\ FieldIdShape(n))

C6_Witness ==
  /\ Applied("emails")
  /\ <<"1","a">> \in names["emails"]
  /\ InPlaceholder(item, <<"1","a">>)

(***************************************************************************)
(* C7: workflows and marketing emails report the union of structural key   *)
(* matching and token matching; lists, pipelines and reports report        *)
(* structural key matching only, so an identifier found only inside a      *)
(* placeholder is not reported for them.                                   *)
(***************************************************************************)
C7_StrategyPerKind ==
  /\ \A k \in StructuralKinds :
       Applied(k) =>
         \A n \in IdentTexts :
           (InPlaceholder(item, n) /\ ~UnderPropertyKey(item, n)) => n \notin names[k]
  /\ \A k1, k2 \in StructuralKinds :
       (Applied(k1) /\ Applied(k2)) => names[k1] = names[k2]
  /\ \A k1, k2 \in TokenKinds :
       (Applied(k1) /\ Applied(k2)) => names[k1] = names[k2]
  /\ \A s \in StructuralKinds, t \in TokenKinds :
       (Applied(s) /\ Applied(t)) =>
         /\ names[s] \subseteq names[t]
         /\ \A n \in names[t] \ names[s] : InPlaceholder(item, n)
         /\ \A n \in IdentTexts : InPlaceholder(item, n) => n \in names[t]

C7_Witness ==
  /\ Applied("workflows") /\ Applied("lists")
  /\ names["lists"] = {W_LEAD}
  /\ names["workflows"] = {W_LEAD, W_FAV}

(***************************************************************************)
(* Where a form holds its fields, as paths from the root of the form.      *)
(***************************************************************************)
Key(k) == [t |-> "key", v |-> k]
Idx(i) == [t |-> "idx", v |-> i]

\* every node of a value with the path that leads to it
RECURSIVE Nodes(_)
Nodes(val) ==
  {[p |-> <<>>, v |-> val]} \cup
  CASE val.t = "obj" ->
         UNION { { [p |-> <<Key(val.v[i].k)>> \o x.p, v |-> x.v] :
                   x \in Nodes(val.v[i].v) } : i \in 1..Len(val.v) }
    [] val.t = "arr" ->
         UNION { { [p |-> <<Idx(i)>> \o x.p, v |-> x.v] :
                   x \in Nodes(val.v[i]) } : i \in 1..Len(val.v) }
    [] OTHER -> {}

IsIdx(e) == e.t = "idx"

\* dependentFields[].dependentFieldFilters[].dependentFormField
IsCurrentStep(p) ==
  /\ Len(p) = 5
  /\ p[1] = Key(W_DEPFIELDS) /\ IsIdx(p[2])
  /\ p[3] = Key(W_DEPFILTERS) /\ IsIdx(p[4])
  /\ p[5] = Key(W_DEPFORMFIELD)

\* dependentFields[].fields[]
IsLegacyStep(p) ==
  /\ Len(p) = 4
  /\ p[1] = Key(W_DEPFIELDS) /\ IsIdx(p[2])
  /\ p[3] = Key(W_FIELDS) /\ IsIdx(p[4])

\* a chain of conditional steps, of the current kind only or of both kinds
RECURSIVE IsSteps(_, _)
IsSteps(p, legacyToo) ==
  \/ p = <<>>
  \/ Len(p) >= 5 /\ IsCurrentStep(SubSeq(p, 1, 5))
       /\ IsSteps(SubSeq(p, 6, Len(p)), legacyToo)
  \/ legacyToo /\ Len(p) >= 4 /\ IsLegacyStep(SubSeq(p, 1, 4))
       /\ IsSteps(SubSeq(p, 5, Len(p)), legacyToo)

\* fieldGroups[].fields[] <steps> name
IsCurrentNamePath(p, legacyToo) ==
  /\ Len(p) >= 5
  /\ p[1] = Key(W_FIELDGROUPS) /\ IsIdx(p[2])
  /\ p[3] = Key(W_FIELDS) /\ IsIdx(p[4])
  /\ IsSteps(SubSeq(p, 5, Len(p) - 1), legacyToo)
  /\ p[Len(p)] = Key(W_NAME_KEY)

\* formFields[] <steps> name  or  formFields[][] <steps> name
IsLegacyNamePath(p) ==
  /\ Len(p) >= 3
  /\ p[1] = Key(W_FORMFIELDS) /\ IsIdx(p[2])
  /\ p[Len(p)] = Key(W_NAME_KEY)
  /\ \/ IsSteps(SubSeq(p, 3, Len(p) - 1), TRUE)
     \/ Len(p) >= 4 /\ IsIdx(p[3]) /\ IsSteps(SubSeq(p, 4, Len(p) - 1), TRUE)

\* the non-empty names found at the paths that satisfy a path predicate
NamesAt(val, IsNamePath(_)) ==
  { x.v.v : x \in { y \in Nodes(val) :
                    IsNamePath(y.p) /\ y.v.t = "str" /\ y.v.v # <<>> } }

CurrentPathOnly(p) == IsCurrentNamePath(p, FALSE)
CurrentPathAll(p) == IsCurrentNamePath(p, TRUE)

(***************************************************************************)
(* C8: for a current-version form extractFormProps returns the name of     *)
(* every field of every field group, verbatim (no identifier-shape         *)
(* filter), and the name of every conditional field reachable through      *)
(* dependentFields[].dependentFieldFilters[].dependentFormField at any     *)
(* nesting depth.                                                          *)
(***************************************************************************)
C8_CurrentFormNames ==
  Applied("forms") => NamesAt(item, CurrentPathOnly) \subseteq names["forms"]

\* a conditional field two levels down, with a name that is no identifier
C8_Witness ==
  /\ Applied("forms")
  /\ \E x \in Nodes(item) :
       /\ Len(x.p) = 15
       /\ CurrentPathOnly(x.p)
       /\ x.v = JStr(W_FIRSTNAME)
  /\ W_FIRSTNAME \in names["forms"]

(***************************************************************************)
(* C9: for a legacy form extractFormProps returns the name of every field  *)
(* of formFields, be it a flat sequence of fields or a sequence of rows of *)
(* fields, plus the names under each dependent entry's nested `fields`     *)
(* list; a form carrying both layouts yields the union of both walks.      *)
(***************************************************************************)
C9_LegacyFormNames ==
  Applied("forms") =>
    /\ NamesAt(item, IsLegacyNamePath) \subseteq names["forms"]
    /\ names["forms"] = NamesAt(item, CurrentPathAll) \cup NamesAt(item, IsLegacyNamePath)

\* rows in formFields, a legacy nested field, and a current layout beside it
C9_Witness ==
  /\ Applied("forms")
  /\ \E x \in Nodes(item) :
       /\ IsLegacyNamePath(x.p) /\ IsIdx(x.p[3]) /\ Len(x.p) = 8
       /\ x.v = JStr(W_LEAD)
  /\ \E x \in Nodes(item) : CurrentPathOnly(x.p) /\ x.v = JStr(W_FIRSTNAME)
  /\ names["forms"] = {W_EMAIL, W_LEAD, W_FIRSTNAME}

(***************************************************************************)
(* What a usage scan should show, read off what the CRM served.            *)
(***************************************************************************)
Stages == Paginated \cup PipelineObjects \cup {"reports"}

StartsWith(s, prefix) ==
  Len(prefix) <= Len(s) /\ SubSeq(s, 1, Len(prefix)) = prefix

\* the positions of the warnings that name a source kind
WarningsOf(ws, kind) ==
  { i \in 1..Len(ws) : StartsWith(ws[i], WarningLabel(kind) \o <<":", " ">>) }

\* walking the item throws
Breaks(kind, it) == Thrown \in ExtractorOf(kind, it)

\* a source that was fetched and whose items were all walked
Succeeded(kind) ==
  /\ kind \notin failed
  /\ \A i \in 1..Len(served[kind]) : ~Breaks(kind, served[kind][i])

NoDuplicates(q) == \A i, j \in 1..Len(q) : q[i] = q[j] => i = j

\* the scan has answered a request that carried a token
Answered == pc = "done" /\ token # <<>>

(***************************************************************************)
(* C1: whatever subset of the six sources fails to be fetched, the scan    *)
(* still asks for every other source and answers success; each source that *)
(* succeeded shows the names, the count and the provenance of the items    *)
(* served for it; the warnings hold exactly one entry per failed source,   *)
(* opening with the label of that source, and none for a source that       *)
(* succeeded.                                                              *)
(***************************************************************************)
C1_PartialFailure ==
  Answered =>
    /\ response.status = 200 /\ response.success
    /\ \A k \in Kinds \ failed : \A st \in Stages : KindOf(st) = k => st \in asked
    /\ \A k \in Kinds :
         IF k \in failed
         THEN \E i \in 1..Len(response.warnings) :
                /\ WarningsOf(response.warnings, k) = {i}
                /\ response.warnings[i] = Warning(k, outage)
         ELSE Succeeded(k) =>
                /\ WarningsOf(response.warnings, k) = {}
                /\ response.count[k] = Len(served[k])
                /\ response.props[k] =
                     UNION { ExtractorOf(k, served[k][i]) : i \in 1..Len(served[k]) }
                /\ \A i \in 1..Len(served[k]) :
                     \A n \in ExtractorOf(k, served[k][i]) :
                       \E j \in 1..Len(response.usageDetails[n][k]) :
                         response.usageDetails[n][k][j] = SourceName(k, served[k][i])
    /\ Len(response.warnings) =
         Cardinality(failed) + Cardinality({ k \in Kinds \ failed : ~Succeeded(k) })

\* the pipelines fetch alone fails (at the tickets request); a workflow and
\* a report were served and show in the answer
C1_Witness ==
  /\ Answered
  /\ failed = {"pipelines"}
  /\ "tickets" \in asked
  /\ response.warnings = <<Warning("pipelines", outage)>>
  /\ response.props["workflows"] = {W_LEAD}
  /\ response.props["reports"] = {W_AMOUNT}
  /\ response.count["workflows"] = 1

(***************************************************************************)
(* The exchanges of a paginateHubSpot call, read off the page bodies.      *)
(***************************************************************************)
\* the item array of a page body, empty when the body holds none
PageItems(data, key) == IF IsArray(Get(data, key)) THEN Get(data, key).v ELSE <<>>

\* the next cursor a page body carries, JNull when it carries none
CursorIn(data) ==
  IF Get(data, W_PAGING) = Undefined THEN JNull
  ELSE Get(Get(Get(data, W_PAGING), W_NEXT), W_AFTER)

\* the item arrays of the first n exchanges, one after the other
RECURSIVE PagesUpTo(_, _, _)
PagesUpTo(exchanges, key, n) ==
  IF n = 0 THEN <<>>
  ELSE PagesUpTo(exchanges, key, n - 1) \o PageItems(exchanges[n].data, key)

\* the paginateHubSpot call of a source has ended
Ended(kind) == trace.kind = kind /\ pc = AfterKind(kind)

(***************************************************************************)
(* C2: a paginateHubSpot call issues its requests one after another, each  *)
(* with limit=100: the first without `after`, each later one with the      *)
(* cursor of the response just before it; the call that returns has asked  *)
(* for N pages, page N being the first that carries no next cursor, and    *)
(* returns the item arrays of the N pages concatenated in page order.      *)
(***************************************************************************)
C2_CursorChain ==
  \A kind \in Paginated :
    trace.kind = kind =>
      LET ex == trace.exchanges
          n == Len(ex)
      IN /\ n >= 1
         /\ \A i \in 1..n : Get(ex[i].params, W_LIMIT) = JNum(100)
         /\ Get(ex[1].params, W_AFTER) = Undefined
         /\ \A i \in 2..n :
              /\ ex[i - 1].ok
              /\ CursorIn(ex[i - 1].data) # JNull
              /\ Get(ex[i].params, W_AFTER) = CursorIn(ex[i - 1].data)
         /\ (ex[n].ok /\ CursorIn(ex[n].data) # JNull) => pc = kind
         /\ (Ended(kind) /\ ex[n].ok) =>
              /\ CursorIn(ex[n].data) = JNull
              /\ fetched[kind] = PagesUpTo(ex, DataKey(kind), n)

\* a chain of three pages: two workflows on the first, none on the second,
\* one on the third, returned in that order
C2_Witness ==
  /\ Ended("workflows")
  /\ Len(trace.exchanges) = 3
  /\ \A i \in 1..3 : trace.exchanges[i].ok
  /\ Get(trace.exchanges[3].params, W_AFTER) = CursorAfter(2)
  /\ PageItems(trace.exchanges[1].data, W_WORKFLOWS) = <<Wf_Welcome>>
  /\ PageItems(trace.exchanges[3].data, W_WORKFLOWS) = <<Wf_Welcome2>>
  /\ fetched["workflows"] = <<Wf_Welcome, Wf_Welcome2>>

(***************************************************************************)
(* C3: a failed page request ends the paginateHubSpot call at once: no     *)
(* request follows it and nothing is returned; in the scan the pages       *)
(* already fetched for that source add nothing to the names, the count or  *)
(* the provenance of that source, which gets its warning instead.          *)
(***************************************************************************)
C3_PageFailurePropagates ==
  \A kind \in Paginated :
    /\ trace.kind = kind =>
         \A i \in 1..Len(trace.exchanges) :
           ~trace.exchanges[i].ok =>
             /\ i = Len(trace.exchanges)
             /\ pc = AfterKind(kind)
             /\ kind \in failed
             /\ warnings # <<>> /\ warnings[Len(warnings)] = Warning(kind, outage)
    /\ kind \in failed =>
         /\ fetched[kind] = <<>>
         /\ props[kind] = {}
         /\ count[kind] = 0
         /\ \A n \in DOMAIN usageDetails : kind \notin DOMAIN usageDetails[n]
         /\ Answered =>
              /\ response.props[kind] = {}
              /\ response.count[kind] = 0
              /\ \A n \in DOMAIN response.usageDetails :
                   kind \notin DOMAIN response.usageDetails[n]

\* the second page request for the lists fails after a first page with a
\* list on it
C3_Witness ==
  /\ Ended("lists")
  /\ Len(trace.exchanges) = 2
  /\ trace.exchanges[1].ok
  /\ PageItems(trace.exchanges[1].data, W_LISTS) = <<Li_Welcome>>
  /\ ~trace.exchanges[2].ok
  /\ props["lists"] = {}

(***************************************************************************)
(* C10: in the result of a scan no provenance list names an item twice,    *)
(* and a provenance list is non-empty only for a field that is in the      *)
(* identifier set of that source kind.                                     *)
(***************************************************************************)
C10_ProvenanceDeduplicated ==
  /\ \A n \in DOMAIN usageDetails : \A k \in DOMAIN usageDetails[n] :
       /\ NoDuplicates(usageDetails[n][k])
       /\ usageDetails[n][k] # <<>> => n \in props[k]
  /\ Answered =>
       \A n \in DOMAIN response.usageDetails : \A k \in DOMAIN response.usageDetails[n] :
         /\ NoDuplicates(response.usageDetails[n][k])
         /\ response.usageDetails[n][k] # <<>> => n \in response.props[k]

\* two workflows of the same name reference lead_status, the first of them
\* both under a key and in a placeholder: the name is listed once
C10_Witness ==
  /\ Answered
  /\ served["workflows"] = <<Wf_Welcome, Wf_Welcome2>>
  /\ W_LEAD \in extractWorkflowProps(Wf_Welcome) \cap extractWorkflowProps(Wf_Welcome2)
  /\ response.usageDetails[W_LEAD]["workflows"] = <<W_WELCOME>>
  /\ W_LEAD \in response.props["workflows"]

(***************************************************************************)
(* What a label and an option string hold, read off their characters.      *)
(***************************************************************************)
Greatest(S) == CHOOSE h \in S : \A h2 \in S : h >= h2

\* the characters toInternalName can keep or turn into '_'
Keepable == Lower \cup Upper \cup Digit \cup {"_"} \cup SpaceChars

\* position k holds the first character of the label that is kept, a digit
LeadingDigitAt(text, k) ==
  /\ text[k] \in Digit
  /\ \A j \in 1..(k - 1) :
       \/ \A h \in 1..j : text[h] \in SpaceChars
       \/ text[j] \notin Keepable

\* the places that bound the pieces of an option string
Bounds(s) == {0, Len(s) + 1} \cup {k \in 1..Len(s) : s[k] = ";"}
NextBound(s, b) == Least({c \in Bounds(s) : c > b})

\* the piece that starts after place b, without the whitespace around it
Core(s, b) ==
  LET inside == {k \in (b + 1)..(NextBound(s, b) - 1) : s[k] \notin SpaceChars}
  IN IF inside = {} THEN <<>> ELSE SubSeq(s, Least(inside), Greatest(inside))

KeptStarts(s) == {b \in Bounds(s) \ {Len(s) + 1} : Core(s, b) # <<>>}
Rank(s, b) == Cardinality({c \in KeptStarts(s) : c < b})

(***************************************************************************)
(* C17: for every label toInternalName returns a string of characters of  *)
(* [a-z0-9_] only, of at most 250 characters, that never starts with a     *)
(* digit: where the first character kept is a digit the result starts with *)
(* p_ followed by that digit.                                              *)
(***************************************************************************)
C17_NameShape ==
  Computed("toInternalName") =>
    LET name == out["toInternalName"]
    IN /\ \A k \in 1..Len(name) : name[k] \in NameChars
       /\ Len(name) <= 250
       /\ name # <<>> => name[1] \notin Digit
       /\ \A k \in 1..Len(label) :
            LeadingDigitAt(label, k) => SubSeq(name, 1, 3) = <<"p", "_", label[k]>>

\* a label of a digit and 250 letters: prefixed, then cut to 250 characters
C17_Witness ==
  /\ Computed("toInternalName")
  /\ label = <<"1">> \o Repeat("x", NameLimit)
  /\ Len(out["toInternalName"]) = 250
  /\ SubSeq(out["toInternalName"], 1, 3) = <<"p", "_", "1">>

(***************************************************************************)
(* C18: toInternalName applied to its own result returns that result,      *)
(* also for a result that was prefixed with p_ or cut to 250 characters.   *)
(***************************************************************************)
C18_Idempotent ==
  Computed("toInternalName") =>
    toInternalName(out["toInternalName"]) = out["toInternalName"]

\* a result that was prefixed and cut, and differs from the label
C18_Witness ==
  /\ Computed("toInternalName")
  /\ label = <<" ", "2">> \o Repeat("x", NameLimit - 1) \o <<" ", "Z">>
  /\ out["toInternalName"] = <<"p", "_", "2">> \o Repeat("x", NameLimit - 3)
  /\ toInternalName(out["toInternalName"]) = out["toInternalName"]

(***************************************************************************)
(* C19: parseOptions returns, in input order, one option per piece between *)
(* semicolons that is non-empty once trimmed; the k-th piece kept (from 0) *)
(* gives label = the trimmed piece, displayOrder = k, hidden = false and   *)
(* value = toInternalName(label), or option_k when that is empty; a string *)
(* with no such piece gives the empty sequence.                            *)
(***************************************************************************)
C19_OptionsParsed ==
  Computed("parseOptions") =>
    LET options == out["parseOptions"]
    IN /\ Len(options) = Cardinality(KeptStarts(label))
       /\ \A b \in KeptStarts(label) :
            LET k == Rank(label, b)
                name == toInternalName(Core(label, b))
            IN options[k + 1] =
                 [label |-> Core(label, b),
                  value |-> IF name # <<>> THEN name ELSE W_OPTION_ \o <<"0","1","2","3","4","5","6","7","8","9">>[k + 1],
                  displayOrder |-> k,
                  hidden |-> FALSE]

\* "A;B;;  C ;" gives A, B, C with the orders 0, 1, 2
C19_Witness ==
  /\ Computed("parseOptions")
  /\ label = OptionsExample
  /\ Len(out["parseOptions"]) = 3
  /\ [k \in 1..3 |-> out["parseOptions"][k].label] = << <<"A">>, <<"B">>, <<"C">> >>
  /\ [k \in 1..3 |-> out["parseOptions"][k].displayOrder] = <<0, 1, 2>>
  /\ out["parseOptions"][3].value = <<"c">>

(***************************************************************************)
(* The create request of the endpoint and the group name it carries.       *)
(***************************************************************************)
CallsOf(what) == SelectSeq(crmLog, LAMBDA c : c.call = what)

\* the create request has been sent for the request being handled
CreateSent == hpc \in {"create", "replied"} /\ CallsOf("create") # <<>>

\* the group name the create request carries
GroupSent == Get(crmLog[Len(crmLog)].body, W_GROUPNAME)

StandardTypes == {W_CONTACTS, W_COMPANIES, W_DEALS, W_TICKETS, W_PRODUCTS}

StandardDefault(type) ==
  CASE type = W_CONTACTS -> W_CONTACT \o W_INFORMATION
    [] type = W_COMPANIES -> W_COMPANY \o W_INFORMATION
    [] type = W_DEALS -> W_DEAL \o W_INFORMATION
    [] type = W_TICKETS -> W_TICKET \o W_INFORMATION
    [] type = W_PRODUCTS -> W_PRODUCT \o W_INFORMATION

\* the groups of the listing the CRM answers with, none when it fails
Listed ==
  IF listing # JNull /\ Get(listing, W_RESULTS).t = "arr"
  THEN Get(listing, W_RESULTS).v ELSE <<>>

NotPlatformOwned(group) == Get(group, W_HUBSPOTDEFINED) # JBool(TRUE)

\* a group name was supplied by the caller
Supplied == Get(req, W_DEFAULTGROUP).t = "str" /\ Get(req, W_DEFAULTGROUP).v # <<>>

\* the group name the order of the claim arrives at, and whether it looks up
ExpectedLookup == ~Supplied /\ Get(req, W_OBJECTTYPE).v \notin StandardTypes

ExpectedGroup ==
  LET type == Get(req, W_OBJECTTYPE).v
      own == {k \in 1..Len(Listed) : NotPlatformOwned(Listed[k])}
  IN IF Supplied THEN Get(req, W_DEFAULTGROUP).v
     ELSE IF type \in StandardTypes THEN StandardDefault(type)
     ELSE IF own # {} THEN Get(Listed[Least(own)], W_NAME_KEY).v
     ELSE IF Listed # <<>> THEN Get(Listed[1], W_NAME_KEY).v
     ELSE type \o W_INFORMATION

(***************************************************************************)
(* C16: the create request carries the group name supplied by the caller,  *)
(* with no lookup; else the fixed default of a standard object type, with  *)
(* no lookup; else, after one lookup, the first listed group not owned by  *)
(* the platform, else the first group listed, else (empty listing, failed  *)
(* lookup) the name <objectType>information.                               *)
(***************************************************************************)
C16_GroupNameOrder ==
  CreateSent =>
    /\ GroupSent = JStr(ExpectedGroup)
    /\ Len(CallsOf("groups")) = IF ExpectedLookup THEN 1 ELSE 0

\* the same order, for object types that name no member of Object.prototype
GroupNameOrder_OwnKeys ==
  CreateSent /\ Get(req, W_OBJECTTYPE).v \notin ObjectPrototype => C16_GroupNameOrder

(***************************************************************************)
(* One bulk-creation batch.                                                *)
(***************************************************************************)
BatchOver == fpc = "done"

ReportedSuccess(outcome) == Get(outcome.body, W_SUCCESS) = JBool(TRUE)

HowMany(q, Test(_)) == Cardinality({k \in 1..Len(q) : Test(q[k])})

C12_FailuresIsolated ==
  /\ successCount + failCount = Len(outcomes)
  /\ successCount = HowMany(outcomes, ReportedSuccess)
  /\ BatchOver =>
       /\ Len(sent) = Len(parsedRows)
       /\ Len(outcomes) = Len(parsedRows)
       /\ successCount + failCount = Len(parsedRows)

\* three rows, the first refused by the CRM, the second lost, the third created
C12_Witness ==
  /\ BatchOver
  /\ Len(parsedRows) = 3
  /\ outcomes[1].status = 409
  /\ outcomes[2] = NoReply
  /\ ReportedSuccess(outcomes[3])
  /\ successCount = 1
  /\ failCount = 2

(***************************************************************************)
(* C13: between two consecutive create requests of a batch there is a      *)
(* pause: a batch that has issued n requests has paused n - 1 times.       *)
(***************************************************************************)
C13_PauseBetweenCreates ==
  Len(sent) <= Len(slept) + 1

(***************************************************************************)
(* C15: the group name is resolved once for the whole batch: the group     *)
(* listing is asked for at most once per batch, and each row causes one    *)
(* call to the CRM.                                                        *)
(***************************************************************************)
C15_GroupResolvedOncePerBatch ==
  /\ Len(CallsOf("groups")) <= 1
  /\ Len(crmLog) <= Len(sent)

(***************************************************************************)
(* C14: the record checks of an analysis run go out one property at a     *)
(* time in list order, each after the one before has settled and a pause   *)
(* of the fixed length has passed; at most one is in flight; no pause      *)
(* follows the last property.                                              *)
(***************************************************************************)
C14_ChecksSequentialWithDelay ==
  /\ sent = SubSeq(NamesOf(customProps), 1, Len(sent))
  /\ Len(sent) <= Len(outcomes) + 1
  /\ Cardinality(inFlight) <= 1
  /\ inFlight = (IF Len(sent) > Len(outcomes) THEN {Len(sent) - 1} ELSE {})
  /\ Len(slept) <= Len(outcomes)
  /\ Len(sent) <= Len(slept) + 1
  /\ \A k \in 1..Len(slept) : slept[k] = 120
  /\ customProps # <<>> => Len(slept) <= Len(customProps) - 1
  /\ fpc = "done" =>
       /\ Len(sent) = Len(customProps)
       /\ customProps # <<>> => Len(slept) = Len(customProps) - 1

\* a finished run over three custom properties, the second check failing:
\* two pauses
C14_Witness ==
  /\ fpc = "done"
  /\ Len(customProps) = 3
  /\ Len(outcomes) = 3
  /\ outcomes[2] = JStr(W_ERROR)
  /\ outcomes[3] = JNum(5)
  /\ slept = <<120, 120>>

(***************************************************************************)
(* C20: a bulk deletion processes every queued name once and in order,     *)
(* whatever the outcome of the earlier ones; a field leaves the in-memory  *)
(* list exactly when its delete request reported success; at the end       *)
(* deleted + failed is the number of queued names.                         *)
(***************************************************************************)
DeleteSucceeded(data) == Get(data, W_SUCCESS) = JBool(TRUE)

C20_Counts ==
  fpc \in {"send", "await", "done"} =>
    /\ sent = SubSeq(queue, 1, Len(sent))
    /\ Len(sent) <= Len(outcomes) + 1
    /\ deleted = HowMany(outcomes, DeleteSucceeded)
    /\ deleted + deleteFailed = Len(outcomes)
    /\ fpc = "done" =>
         /\ sent = queue
         /\ deleted + deleteFailed = Len(queue)

\* the list loses the field whose deletion just reported success, nothing else
C20_Removal ==
  IF Len(outcomes') = Len(outcomes) + 1 /\ DeleteSucceeded(outcomes'[Len(outcomes')])
  THEN allProperties' =
         SelectSeq(allProperties, LAMBDA prop : NameIn(prop) # sent[Len(outcomes')])
  ELSE allProperties' = allProperties

C20_DeletionsIsolated == [](C20_Counts) /\ [][C20_Removal]_vars

\* three names queued: the first deleted, the second refused, the third deleted
C20_Witness ==
  /\ fpc = "done"
  /\ queue = <<W_FAV, W_LEAD, W_AMOUNT>>
  /\ DeleteSucceeded(outcomes[1])
  /\ outcomes[2] = Refused
  /\ DeleteSucceeded(outcomes[3])
  /\ NamesOf(allProperties) = <<W_LEAD>>
  /\ deleted = 2
  /\ deleteFailed = 1

(***************************************************************************)
(* What one source kind has contributed to a usage scan.                   *)
(***************************************************************************)
\* the provenance entries of a source kind
ProvenanceOf(details, kind) ==
  [n \in {x \in DOMAIN details : kind \in DOMAIN details[x]} |-> details[n][kind]]

NoProvenance == [n \in {} |-> <<>>]

Warned(ws, kind) == WarningsOf(ws, kind) # {}

\* the items served for a kind that come before the first one whose walk throws
Walked(kind) ==
  LET broken == {i \in 1..Len(served[kind]) : Breaks(kind, served[kind][i])}
  IN IF broken = {} THEN served[kind]
     ELSE SubSeq(served[kind], 1, Least(broken) - 1)

NamesIn(kind, its) == UNION { ExtractorOf(kind, its[i]) : i \in 1..Len(its) }

ContributesNothing(kind) ==
  /\ response.props[kind] = {}
  /\ response.count[kind] = 0
  /\ ProvenanceOf(response.usageDetails, kind) = NoProvenance

(***************************************************************************)
(* C29, as stated: in the answer of a scan a source kind that has a        *)
(* warning has an empty identifier set, the count 0 and no provenance.     *)
(***************************************************************************)
C29_WarnedSourceEmpty ==
  Answered =>
    \A k \in Kinds : Warned(response.warnings, k) => ContributesNothing(k)

(***************************************************************************)
(* C29, amended: a source with a warning contributes nothing when the      *)
(* fetch of a paginated source or of the reports failed, or the pipelines  *)
(* failed at the deals fetch.  Otherwise the warning comes with what was   *)
(* accumulated before the failure: the pipelines keep the count, the names *)
(* and the provenance of the deals pipelines when the tickets fetch fails, *)
(* and a source one of whose items cannot be walked keeps the count of the *)
(* fetched items and the names and provenance of the items before it.      *)
(***************************************************************************)
C29_WarnedSourceContribution ==
  Answered =>
    \A k \in Kinds :
      Warned(response.warnings, k) =>
        IF k \in failed /\ (k # "pipelines" \/ "tickets" \notin asked)
        THEN ContributesNothing(k)
        ELSE /\ response.count[k] = Len(served[k])
             /\ response.props[k] = NamesIn(k, Walked(k))
             /\ DOMAIN ProvenanceOf(response.usageDetails, k) = NamesIn(k, Walked(k))
             /\ \A n \in NamesIn(k, Walked(k)) :
                  Range(response.usageDetails[n][k]) =
                    { SourceName(k, Walked(k)[i]) :
                        i \in {j \in 1..Len(Walked(k)) : n \in ExtractorOf(k, Walked(k)[j])} }

\* the workflows fail after a first page and show nothing; the pipelines
\* fail at the tickets fetch and show the deals pipeline
C29_Witness ==
  /\ Answered
  /\ failed = {"workflows", "pipelines"}
  /\ Len(served["workflows"]) = 1
  /\ ContributesNothing("workflows")
  /\ "tickets" \in asked
  /\ Warned(response.warnings, "pipelines")
  /\ response.count["pipelines"] = 1
  /\ response.props["pipelines"] # {}

(***************************************************************************)
(* C30: a step of the scan changes the identifier set, the count, the      *)
(* provenance entries and the warnings of the source kind it works on and  *)
(* of no other kind; and the answer reports a name under a kind only if an *)
(* item served for that kind references it.                                *)
(***************************************************************************)
ContributionOf(kind, ps, cs, ds, ws) ==
  <<ps[kind], cs[kind], ProvenanceOf(ds, kind), Cardinality(WarningsOf(ws, kind))>>

C30_OwnKindOnly ==
  \A k \in Kinds :
    ContributionOf(k, props', count', usageDetails', warnings')
      # ContributionOf(k, props, count, usageDetails, warnings)
    => k = KindOf(pc)

C30_NoCrossReport ==
  Answered =>
    \A k \in Kinds :
      /\ response.props[k] \subseteq NamesIn(k, served[k])
      /\ DOMAIN ProvenanceOf(response.usageDetails, k) \subseteq NamesIn(k, served[k])

C30_SourcesIndependent == [](C30_NoCrossReport) /\ [][C30_OwnKindOnly]_vars

\* a workflow and a form were served; a name the form alone references is
\* reported under forms and under no other kind
C30_Witness ==
  /\ Answered
  /\ Len(served["workflows"]) = 1
  /\ Len(served["forms"]) = 1
  /\ response.props["workflows"] # {}
  /\ \E n \in response.props["forms"] :
       /\ \A k \in Kinds \ {"forms"} : n \notin response.props[k]
       /\ DOMAIN response.usageDetails[n] = {"forms"}

(***************************************************************************)
(* The create tab under file uploads and clears.                           *)
(***************************************************************************)
\* the batch followed has ended, by its last statement or by a throw
BatchEnded == fpc \in {"done", "thrown"}

\* C25: the rows a batch submits are the rows parsedRows held when the batch
\* started, in that order, and once the batch has ended every one of them
\* has been submitted, whatever files were parsed or cleared meanwhile
C25_RowsAsStarted ==
  /\ StartsWith(batchRows, sent)
  /\ BatchEnded => sent = batchRows

\* C26: a running batch stops only by finishing, and at that step the lock is
\* released: isCreating is false and the create button is enabled
C26_EndsUnlocked ==
  [][(fpc = "await" /\ fpc' # "await")
       => (fpc' = "done" /\ ~isCreating' /\ ~createBtnDisabled')]_vars

\* C27: at most one call of createProperties is past the lock at any time,
\* and while isCreating is true the create button is disabled, also after
\* processFile and clearFile have called updateCreateBtn
C27_OneBatchAtATime ==
  /\ batches <= 1
  /\ isCreating => createBtnDisabled
  /\ fpc = "await" => isCreating

\* a batch is running, and processFile has put other rows in place meanwhile
C27_Witness ==
  /\ fpc = "await"
  /\ isCreating
  /\ createBtnDisabled
  /\ batches = 1
  /\ parsedRows # <<>>
  /\ parsedRows # batchRows

(***************************************************************************)
(* The manage tab: what the usage columns say, and who wrote them.         *)
(***************************************************************************)
\* the properties of the list whose record check failed or is under way
Unsettled ==
  { n \in DOMAIN cells : cells[n]["records"] \in {JStr(W_ERROR), JStr(W_LOADING)} }

\* C22: a property whose record check ended in error, or is still loading,
\* is never taken to have zero records: unusedCount does not count it, the
\* unused filter does not show it, and selectUnused does not check its box
C22_ErrorIsNotZero ==
  \A n \in Unsettled :
    /\ n \notin unusedCount(allProperties, cells)
    /\ n \notin Rendered(allProperties, cells, "unused", analysisStarted)
    /\ \A filter \in {"all", "unused", "used"} :
         n \notin selectUnused(allProperties, cells, filter, analysisStarted,
                               Range(NamesOf(allProperties)))

\* C23: a property is marked absent for a source kind only if some analysis
\* run got a usage context in which that source was fetched without a
\* warning and no item of it names the property
C23_AbsentOnlyIfFetched ==
  \A n \in DOMAIN cells : \A kind \in Kinds :
    cells[n][kind] = JBool(FALSE) =>
      \E r \in 1..Len(runs) : \E answer \in runs[r].ctx :
        ~Warned(answer.warnings, kind) /\ n \notin answer.props[kind]

\* the analysis has checked the property and found it unused
FoundUnused(n) ==
  /\ \A kind \in Kinds : cells[n][kind] = JBool(FALSE)
  /\ cells[n]["records"] = JNum(0)

\* C24: selectUnused checks the box of a property only if the property is a
\* custom one, its six source columns say absent and its record count is
\* the number 0; a column that is not yet checked keeps the box unchecked
C24_SelectsCheckedUnused ==
  [][\A n \in selection' \ selection :
       /\ \E p \in Range(allProperties) : NameIn(p) = n /\ NotHubspotDefined(p)
       /\ FoundUnused(n)]_vars

\* the analysis runs that have not ended
Running == { r \in DOMAIN runs : runs[r].at # "over" }

\* a step of run r that changes a usage column of the list
WritesCell(r) ==
  /\ r \in DOMAIN runs'
  /\ runs'[r] # runs[r]
  /\ allProperties' = allProperties
  /\ cells' # cells

\* C28: a usage column is written only by an analysis run that was started
\* on the list now loaded, never by one started before the latest
\* loadProperties; and no second run starts while one has not ended
C28_OnlyCurrentRunWrites ==
  [][/\ \A r \in 1..Len(runs) : WritesCell(r) => runs[r].loaded = generation
     /\ Cardinality(Running) <= 1 => Cardinality(Running') <= 1]_vars

(***************************************************************************)
(* Deleting a property the platform defines.                               *)
(***************************************************************************)
\* C21: the deletion of a system-defined property is never answered with
\* success, and no step of confirmDelete takes a system-defined property out
\* of allProperties
C21_Reported ==
  \A j \in 1..Len(outcomes) :
    sent[j] \in HubspotDefinedNames => outcomes[j] = JNull \/ ~DeleteSucceeded(outcomes[j])

C21_Kept ==
  \A p \in Range(allProperties) :
    Truthy(Get(p, W_HUBSPOTDEFINED)) => p \in Range(allProperties')

====
